---- MODULE Spec2Model ----
(***************************************************************************)
(* A state-machine model of the group moderation bot: the sqlite tables of *)
(* warnings.db, the module-level dictionaries of main.py, the handlers of  *)
(* main.py and warning_handler.py, and the chat platform they call.        *)
(*                                                                         *)
(* A handler is a coroutine: it runs without interruption from one await   *)
(* to the next, so every action below is one such segment.  Every sqlite   *)
(* call and every platform call may raise; the outcome is an input of the  *)
(* step (\E ok \in BOOLEAN) and the except branch of the source decides    *)
(* what happens then.                                                      *)
(***************************************************************************)
EXTENDS Integers, Sequences, FiniteSets, TLC

\* ------------------------------------------------------------ bounds
NUsers == 2
NGroups == 2
NHandlers == 2
MaxWarnings == 3
MaxTextLen == 1
MaxTime == 20
MaxTasks == 2
MaxUpdates == 4
MaxScanLen == 2

\* ------------------------------------------------- program constants
\* The operator's user id (an abstract id: the source's 6177929931 names
\* one user, and only equality with it is ever tested).
ALLOWED_USER_ID == 1
\* Seconds a deletion flag is meant to last.
MESSAGE_DELETE_TIMEFRAME == 15

Users == 1..NUsers
Groups == 101..(100 + NGroups)
Handlers == 1..NHandlers

\* A text is a sequence of codepoints; <<>> is "no text" (message.text is
\* None or empty).  The texts of the messages are drawn from a Latin and
\* an Arabic letter.
Codepoints == {65, 1575}
RECURSIVE SeqsUpTo(_, _)
SeqsUpTo(S, n) ==
    IF n = 0 THEN {<<>>}
    ELSE LET shorter == SeqsUpTo(S, n - 1)
         IN  shorter \cup {Append(s, x) : s \in shorter, x \in S}
Texts == SeqsUpTo(Codepoints, MaxTextLen)

NoFlag == -1
NoGroup == 0
NoUser == 0

\* The codepoints a detector is called with: a Latin letter, an Arabic
\* letter, the two ends of the block U+0600..U+06FF and their neighbours
\* U+05FF and U+0700.
ScanCodepoints == {65, 1535, 1536, 1575, 1791, 1792}
ScanTexts == SeqsUpTo(ScanCodepoints, MaxScanLen)

\* What a detector can be handed: a str, or None (a message without text).
\* No detector has been called yet in NoScan.
None == [isStr |-> FALSE, chars |-> <<>>]
ScanInputs == {[isStr |-> TRUE, chars |-> t] : t \in ScanTexts} \cup {None}
NoScan == [pc |-> "none", text |-> None, results |-> <<>>, raised |-> FALSE]

VARIABLES
    groups,               \* table groups: the registered group ids
    bypass_users,         \* table bypass_users
    warnings,             \* table warnings: user_id -> warnings (no row = 0)
    warnings_history,     \* table warnings_history: rows in insertion order
    tara_links,           \* table tara_links: group_id -> the TARA user ids
    deletion_settings,    \* table deletion_settings: group_id -> "unset"/"on"/"off"
    removed_users,        \* table removed_users: (group_id, user_id) -> rows
    permissions,          \* table permissions: user_id -> "none"/"normal"/"removed"
    pending_group_names,  \* dict of main.py: operator -> group awaiting a name
    pending_user_removals,\* dict of main.py: operator -> group of the unremove
    delete_all_messages_after_removal, \* dict of main.py: group -> expires_at
    reapers,              \* the sleeping remove_deletion_flag_after_timeout tasks
    now,                  \* the clock
    member,               \* the platform: (group, user) -> membership status
    hw,                   \* the running handle_warnings coroutines
    rm,                   \* the running rmove_user_cmd coroutine
    chk,                  \* the running check_cmd coroutine
    fx,                   \* what the last step received, called and logged
    recorded,             \* history: user -> committed update_warnings calls
    armed_at,             \* history: group -> time of the last arming
    unremoves,            \* history: the pair the last unremove deleted
    updates_left,         \* the updates still to be delivered, or Unbounded
    scan                  \* the text a detector was called with, and what it gave

store == <<groups, bypass_users, warnings, warnings_history, tara_links,
           deletion_settings, removed_users, permissions>>
dicts == <<pending_group_names, pending_user_removals>>
vars == <<groups, bypass_users, warnings, warnings_history, tara_links,
          deletion_settings, removed_users, permissions, pending_group_names,
          pending_user_removals, delete_all_messages_after_removal, reapers,
          now, member, hw, rm, chk, fx, recorded, armed_at, unremoves, updates_left,
          scan>>

\* ------------------------------------------------------------ updates
\* run_polling (line 1947) hands the updates to the handlers one by one for
\* as long as the bot runs; a specification may stop after MaxUpdates.
Unbounded == MaxUpdates + 1

\* One more update is taken from the platform.
TakeUpdate ==
    /\ updates_left # 0
    /\ updates_left' = IF updates_left = Unbounded THEN Unbounded ELSE updates_left - 1

\* ------------------------------------------------------------ effects
\* One entry of fx: an update received, a platform call with its outcome,
\* or a logged error.  chat is the chat the call addresses (a user id for a
\* private chat), user the user it is about.
Eff(kind, chat, user, what, ok) ==
    [kind |-> kind, chat |-> chat, user |-> user, what |-> what, ok |-> ok]
Recv(chat, user, what) == Eff("update", chat, user, what, TRUE)
Send(to, what, ok) == Eff("send_message", to, NoUser, what, ok)
LogError(what) == Eff("log_error", NoGroup, NoUser, what, FALSE)

Statuses == {"creator", "administrator", "member", "restricted", "left", "kicked"}

HwIdle == [pc |-> "idle", user |-> NoUser, g_id |-> NoGroup, warnings_count |-> 0,
           reason_line |-> 0, user_notification |-> "", taras |-> <<>>]
RmIdle == [pc |-> "idle", group_id |-> NoGroup, target_user_id |-> NoUser]
ChkIdle == [pc |-> "idle", group_id |-> NoGroup, removed_users |-> <<>>, todo |-> <<>>,
            users_still_in_group |-> <<>>, users_not_in_group |-> <<>>,
            lookups |-> <<>>, bans |-> <<>>]

\* The tara_links table is written by no code of the repository: its
\* content is what the database holds when the bot starts.  The first
\* group is linked to the operator.
\* Every user is a TARA of every group.
AllTaras == [g \in Groups |-> Users]

OneTara == [g \in Groups |-> IF g = 101 THEN {ALLOWED_USER_ID} ELSE {}]

\* The permissions table is written by no INSERT of the repository either:
\* the operator has no row, every other user the role "normal".
InitialPermissions == [u \in Users |-> IF u = ALLOWED_USER_ID THEN "none" ELSE "normal"]

Init ==
    /\ groups = {}
    /\ bypass_users = {}
    /\ warnings = [u \in Users |-> 0]
    /\ warnings_history = <<>>
    /\ tara_links = OneTara
    /\ deletion_settings = [g \in Groups |-> "unset"]
    /\ removed_users = [p \in Groups \X Users |-> 0]
    /\ permissions = InitialPermissions
    /\ pending_group_names = [u \in Users |-> NoGroup]
    /\ pending_user_removals = [u \in Users |-> NoGroup]
    /\ delete_all_messages_after_removal = [g \in Groups |-> NoFlag]
    /\ reapers = {}
    /\ now = 0
    /\ member = [p \in Groups \X Users |-> "member"]
    /\ hw = [h \in Handlers |-> HwIdle]
    /\ rm = RmIdle
    /\ chk = ChkIdle
    /\ fx = {}
    /\ recorded = [u \in Users |-> 0]
    /\ armed_at = [g \in Groups |-> NoFlag]
    /\ unremoves = <<>>
    /\ scan = NoScan
    /\ updates_left = Unbounded

\* -------------------------------------------------- warning_handler.py
is_arabic(text) ==
    \E i \in 1..Len(text) : text[i] >= 1536 /\ text[i] <= 1791

\* range(start, stop) of Python: stop is not in it.
py_range(start, stop) == start..(stop - 1)

\* range(0x0600, 0x06FF) : the last codepoint of the block is left out.
utils_is_arabicOpenRange(text) ==
    LET arabic_range == py_range(1536, 1791)
    IN  \E i \in 1..Len(text) : text[i] \in arabic_range

\* utils.py, lines 3-8: any(ord(char) in range(0x0600, 0x06FF + 1)).
utils_is_arabic(text) ==
    LET arabic_range == py_range(1536, 1791 + 1)
    IN  \E i \in 1..Len(text) : text[i] \in arabic_range

\* re.search with a pattern of one character class [lo-hi]: the position
\* of the first character of the class from i on, 0 for no match.
RECURSIVE re_search(_, _, _, _)
re_search(lo, hi, text, i) ==
    IF i > Len(text) THEN 0
    ELSE IF text[i] >= lo /\ text[i] <= hi THEN i
    ELSE re_search(lo, hi, text, i + 1)

\* main.py, lines 1502-1506: bool(re.search(r'[\u0600-\u06FF]', text))
main_is_arabic(text) == re_search(1536, 1791, text, 1) # 0

\* delete.py, lines 238-243: the same pattern.
delete_py_is_arabic(text) == re_search(1536, 1791, text, 1) # 0

\* A check_arabic without its try: the exception goes to the caller.
check_arabicUncaught(text) ==
    IF text.isStr
    THEN [result |-> is_arabic(text.chars), raised |-> FALSE, log |-> "debug"]
    ELSE [result |-> FALSE, raised |-> TRUE, log |-> ""]

\* warning_handler.py, lines 264-271: is_arabic inside a try.  re.search
\* raises TypeError for anything that is no str; the except branch logs
\* the error and returns False.
check_arabic(text) ==
    IF text.isStr
    THEN [result |-> is_arabic(text.chars), raised |-> FALSE, log |-> "debug"]
    ELSE [result |-> FALSE, raised |-> FALSE, log |-> "error"]

\* The kind of a text update: with or without a codepoint is_arabic finds.
TextKind(text) == IF is_arabic(text) THEN "text_arabic" ELSE "text"

\* The sqlite readers swallow an exception and return a default.
get_user_warnings(user_id, ok) == IF ok THEN warnings[user_id] ELSE 0

\* A group_exists that answers True when the SELECT raises.
group_existsFailOpen(group_id, ok) == IF ok THEN group_id \in groups ELSE TRUE

\* lines 97-108: False when the SELECT raises.
group_exists(group_id, ok) == IF ok THEN group_id \in groups ELSE FALSE
is_bypass_user(user_id, ok) == IF ok THEN user_id \in bypass_users ELSE FALSE
RECURSIVE SortedSeq(_)
SortedSeq(S) ==
    IF S = {} THEN <<>>
    ELSE LET m == CHOOSE x \in S : \A y \in S : x <= y
         IN  <<m>> \o SortedSeq(S \ {m})
get_group_taras(g_id, ok) == IF ok THEN SortedSeq(tara_links[g_id]) ELSE <<>>

\* A ladder that stops at the second level.
ReasonLineTwoLevels(warnings_count) ==
    IF warnings_count = 1 THEN 1 ELSE 2

ReasonLine(warnings_count) ==
    IF warnings_count = 1 THEN 1
    ELSE IF warnings_count = 2 THEN 2
    ELSE 3

\* A coroutine that returned frees its slot.
HwDone == HwIdle

\* The number of warnings written so far, over all users.
RECURSIVE SumOver(_, _)
SumOver(f, S) ==
    IF S = {} THEN 0
    ELSE LET x == CHOOSE y \in S : TRUE IN f[x] + SumOver(f, S \ {x})

\* handle_warnings up to its first await (lines 137-187).  The three ledger
\* calls get_user_warnings, update_warnings and log_warning follow each other
\* with no await between them; each opens its own connection and commits on
\* its own.  update_user_info (line 167) writes the users table, which no
\* handler reads, and its failure is only logged: the table is left out.
handle_warnings_message(h, user, g_id, text) ==
    /\ TakeUpdate
    /\ hw[h].pc = "idle"
    /\ \A h2 \in Handlers : h2 < h => hw[h2].pc # "idle"   \* the lowest free slot
    /\ fx' = {}
    /\   \/ \* line 139: no message text
            /\ text = <<>>
            /\ hw' = [hw EXCEPT ![h] = HwDone]
            /\ UNCHANGED <<warnings, warnings_history, recorded>>
         \/ \* line 150: the group is not registered (or the lookup raised)
            /\ text # <<>>
            /\ \E okG \in BOOLEAN : ~group_exists(g_id, okG)
            /\ hw' = [hw EXCEPT ![h] = [HwIdle EXCEPT !.pc = "reply_unregistered",
                                                      !.user = user, !.g_id = g_id]]
            /\ UNCHANGED <<warnings, warnings_history, recorded>>
         \/ \* line 161: the sender is in the bypass list
            /\ text # <<>>
            /\ \E okG \in BOOLEAN : group_exists(g_id, okG)
            /\ is_bypass_user(user, TRUE)
            /\ hw' = [hw EXCEPT ![h] = HwDone]
            /\ UNCHANGED <<warnings, warnings_history, recorded>>
         \/ \* line 262: not bypassed (or the lookup raised), no Arabic
            /\ text # <<>>
            /\ \E okG \in BOOLEAN : group_exists(g_id, okG)
            /\ \E okB \in BOOLEAN : ~is_bypass_user(user, okB)
            /\ ~is_arabic(text)
            /\ hw' = [hw EXCEPT ![h] = HwDone]
            /\ UNCHANGED <<warnings, warnings_history, recorded>>
         \/ \* lines 172-187: not bypassed (or the lookup raised), Arabic
            /\ text # <<>>
            /\ \E okG \in BOOLEAN : group_exists(g_id, okG)
            /\ \E okB \in BOOLEAN : ~is_bypass_user(user, okB)
            /\ is_arabic(text)
            /\ SumOver(recorded, Users) < MaxWarnings
            /\ \E okR \in BOOLEAN :
                 LET warnings_count == get_user_warnings(user, okR) + 1
                 IN  \/ \* update_warnings raises: nothing is written
                        /\ hw' = [hw EXCEPT ![h] = HwDone]
                        /\ UNCHANGED <<warnings, warnings_history, recorded>>
                     \/ \* update_warnings commits, log_warning raises
                        /\ warnings' = [warnings EXCEPT ![user] = warnings_count]
                        /\ recorded' = [recorded EXCEPT ![user] = @ + 1]
                        /\ hw' = [hw EXCEPT ![h] = HwDone]
                        /\ UNCHANGED warnings_history
                     \/ \* both commit: on to the private notice
                        /\ warnings' = [warnings EXCEPT ![user] = warnings_count]
                        /\ recorded' = [recorded EXCEPT ![user] = @ + 1]
                        /\ warnings_history' = Append(warnings_history,
                               [user_id |-> user, warning_number |-> warnings_count,
                                group_id |-> g_id])
                        /\ hw' = [hw EXCEPT ![h] =
                               [pc |-> "notify", user |-> user, g_id |-> g_id,
                                warnings_count |-> warnings_count,
                                reason_line |-> ReasonLine(warnings_count),
                                user_notification |-> "", taras |-> <<>>]]
    /\ UNCHANGED <<groups, bypass_users, tara_links, deletion_settings, removed_users,
                   permissions, dicts, delete_all_messages_after_removal, reapers,
                   now, member, rm, chk, armed_at, unremoves, scan>>

\* handle_warnings is called with the message of any user in any group.
handle_warnings(h) ==
    \E user \in Users, g_id \in Groups, text \in Texts :
        handle_warnings_message(h, user, g_id, text)

\* The kind of a message that carries a document: with Arabic in the text
\* of its pages and none in its caption, or any other.
DocumentKind(caption, pages) ==
    IF ~is_arabic(caption) /\ is_arabic(pages) THEN "document_arabic" ELSE "document"

\* handle_warnings called with a message that carries a document, with or
\* without a caption: message.text is None and the handler returns at line
\* 141.  Neither message.caption nor message.document is read anywhere.
handle_warnings_document(h) ==
    /\ TakeUpdate
    /\ hw[h].pc = "idle"
    /\ \A h2 \in Handlers : h2 < h => hw[h2].pc # "idle"
    /\ \E user \in Users, g_id \in Groups, caption \in Texts, pages \in Texts :
         fx' = {Recv(g_id, user, DocumentKind(caption, pages))}
    /\ hw' = [hw EXCEPT ![h] = HwDone]
    /\ UNCHANGED <<store, dicts, delete_all_messages_after_removal, reapers, now,
                   member, rm, chk, recorded, armed_at, unremoves, scan>>

\* lines 152-158: the reply into the unregistered group.
hw_reply_unregistered(h) ==
    /\ hw[h].pc = "reply_unregistered"
    /\ \E ok \in BOOLEAN :
         fx' = {Eff("reply_text", hw[h].g_id, hw[h].user, "not_registered", ok)}
    /\ hw' = [hw EXCEPT ![h] = HwDone]
    /\ UNCHANGED <<store, dicts, delete_all_messages_after_removal, reapers, now,
                   member, rm, chk, recorded, armed_at, unremoves, updates_left, scan>>

\* lines 189-241: the private notice returns; the TARAs of the group are read.
\* The texts of the notice and of the report are not modelled beyond the
\* level of the warning and the outcome of the notice.
hw_notify(h) ==
    /\ hw[h].pc = "notify"
    /\ \E outcome \in {"sent", "forbidden", "error"}, okT \in BOOLEAN :
         LET taras == get_group_taras(hw[h].g_id, okT)
         IN  /\ fx' = {Eff("send_message", hw[h].user, hw[h].user, "alarm",
                           outcome = "sent")}
             /\ hw' = [hw EXCEPT ![h] =
                        IF taras = <<>> THEN HwDone
                        ELSE [@ EXCEPT !.pc = "report", !.user_notification = outcome,
                                       !.taras = taras]]
    /\ UNCHANGED <<store, dicts, delete_all_messages_after_removal, reapers, now,
                   member, rm, chk, recorded, armed_at, unremoves, updates_left, scan>>

\* A loop over the TARAs that ends at the first call that raises.
hw_reportStopsAtFailure(h) ==
    /\ hw[h].pc = "report"
    /\ LET t_id == Head(hw[h].taras)
           rest == Tail(hw[h].taras)
       IN  \E res \in {"ok", "send_failed", "forward_failed"} :
             /\ fx' = {Eff("send_message", t_id, hw[h].user, "alarm_report",
                           res # "send_failed")}
                      \cup (IF res = "send_failed" THEN {}
                            ELSE {Eff("forward_message", t_id, hw[h].user, "original",
                                      res = "ok")})
             /\ hw' = [hw EXCEPT ![h] =
                        IF rest = <<>> \/ res # "ok" THEN HwDone
                        ELSE [@ EXCEPT !.taras = rest]]
    /\ UNCHANGED <<store, dicts, delete_all_messages_after_removal, reapers, now,
                   member, rm, chk, recorded, armed_at, unremoves, updates_left, scan>>

\* lines 243-260: one round of the loop over the TARAs.  The forward is
\* not attempted when the report raised.
hw_report(h) ==
    /\ hw[h].pc = "report"
    /\ LET t_id == Head(hw[h].taras)
           rest == Tail(hw[h].taras)
       IN  /\ \E res \in {"ok", "send_failed", "forward_failed"} :
                fx' = {Eff("send_message", t_id, hw[h].user, "alarm_report",
                           res # "send_failed")}
                      \cup (IF res = "send_failed" THEN {}
                            ELSE {Eff("forward_message", t_id, hw[h].user, "original",
                                      res = "ok")})
           /\ hw' = [hw EXCEPT ![h] =
                      IF rest = <<>> THEN HwDone ELSE [@ EXCEPT !.taras = rest]]
    /\ UNCHANGED <<store, dicts, delete_all_messages_after_removal, reapers, now,
                   member, rm, chk, recorded, armed_at, unremoves, updates_left, scan>>

\* ------------------------------------------------- main.py: the commands
\* A command argument is a token; int() accepts it or raises ValueError.
IntTok(n) == [isInt |-> TRUE, val |-> n]
BadTok == [isInt |-> FALSE, val |-> 0]
Toks(D) == {IntTok(n) : n \in D} \cup {BadTok}
Args1(D) == {<<>>} \cup {<<a>> : a \in Toks(D)} \cup {<<a, BadTok>> : a \in Toks(D)}
Args2(D, E) ==
    {<<>>} \cup {<<a>> : a \in Toks(D)} \cup {<<a, b>> : a \in Toks(D), b \in Toks(E)}
    \cup {<<a, b, BadTok>> : a \in {IntTok(n) : n \in D}, b \in {BadTok}}

\* A handler that forgets to look at the sender.
RejectionAnySender(sender, args, n) ==
    IF Len(args) # n THEN "usage"
    ELSE IF \E i \in 1..n : ~args[i].isInt THEN "not_integer"
    ELSE ""

\* What every command handler does before it touches anything (for example
\* lines 1335-1363): the sender must be the operator, the argument count
\* must match, every argument must parse.  "" when the command goes on.
Rejection(sender, args, n) ==
    IF sender # ALLOWED_USER_ID THEN "unauthorized"
    ELSE IF Len(args) # n THEN "usage"
    ELSE IF \E i \in 1..n : ~args[i].isInt THEN "not_integer"
    ELSE ""

\* The effects of a rejected command: nothing for another sender, one
\* message to the operator otherwise.
RejectFx(cmd, sender, args, n, ok) ==
    {Recv(sender, sender, cmd)}
    \cup (IF Rejection(sender, args, n) = "unauthorized" THEN {}
          ELSE {Send(sender, Rejection(sender, args, n), ok)})

\* An Application built with concurrent_updates: the handler of the next
\* update starts while another waits for the platform.
NoHandlerRunningConcurrent == TRUE

\* The Application is built without concurrent_updates (line 1898): the
\* handler of an update returns before the next update is handled.  Only
\* the tasks made by asyncio.create_task run between its awaits.
NoHandlerRunning == rm.pc = "idle" /\ chk.pc = "idle"

add_bypass_user(user_id) == bypass_users \cup {user_id}
remove_bypass_user(user_id, ok) == IF ok THEN bypass_users \ {user_id} ELSE bypass_users

\* /bypass <user_id>, lines 687-765
bypass_cmd ==
    /\ TakeUpdate
    /\ NoHandlerRunning
    /\ \E sender \in Users, args \in Args1(Users), ok \in BOOLEAN :
         \/ /\ Rejection(sender, args, 1) # ""
            /\ fx' = RejectFx("/bypass", sender, args, 1, ok)
            /\ UNCHANGED bypass_users
         \/ /\ Rejection(sender, args, 1) = ""
            /\ LET target_user_id == args[1].val
               IN  \/ \* the check of the list raises
                      /\ fx' = {Recv(sender, sender, "/bypass"),
                                Send(sender, "failed_check", ok)}
                      /\ UNCHANGED bypass_users
                   \/ /\ target_user_id \in bypass_users
                      /\ fx' = {Recv(sender, sender, "/bypass"),
                                Send(sender, "already_bypassed", ok)}
                      /\ UNCHANGED bypass_users
                   \/ \* add_bypass_user raises
                      /\ target_user_id \notin bypass_users
                      /\ fx' = {Recv(sender, sender, "/bypass"),
                                Send(sender, "failed_add", ok)}
                      /\ UNCHANGED bypass_users
                   \/ \* added; a confirmation that raises is answered by
                      \* the except branch of the same try
                      /\ target_user_id \notin bypass_users
                      /\ bypass_users' = add_bypass_user(target_user_id)
                      /\ \E ok2 \in BOOLEAN :
                           fx' = {Recv(sender, sender, "/bypass"),
                                  Send(sender, "added", ok)}
                                 \cup (IF ok THEN {} ELSE {Send(sender, "failed_add", ok2)})
    /\ UNCHANGED <<groups, warnings, warnings_history, tara_links,
                   deletion_settings, removed_users, permissions, dicts,
                   delete_all_messages_after_removal, reapers, now, member, hw, rm,
                   chk, recorded, armed_at, unremoves, scan>>

\* /unbypass <user_id>, lines 767-828
unbypass_cmd ==
    /\ TakeUpdate
    /\ NoHandlerRunning
    /\ \E sender \in Users, args \in Args1(Users), ok \in BOOLEAN :
         \/ /\ Rejection(sender, args, 1) # ""
            /\ fx' = RejectFx("/unbypass", sender, args, 1, ok)
            /\ UNCHANGED bypass_users
         \/ /\ Rejection(sender, args, 1) = ""
            /\ \E okD, ok2 \in BOOLEAN :
                 LET target_user_id == args[1].val
                     removed == okD /\ target_user_id \in bypass_users
                     what == IF removed THEN "unbypassed" ELSE "not_bypassed"
                 IN  /\ bypass_users' = remove_bypass_user(target_user_id, okD)
                     /\ fx' = {Recv(sender, sender, "/unbypass"), Send(sender, what, ok)}
                              \cup (IF okD THEN {} ELSE {LogError("remove_bypass_user")})
                              \cup (IF ok THEN {} ELSE {Send(sender, "failed_remove", ok2)})
    /\ UNCHANGED <<groups, warnings, warnings_history, tara_links,
                   deletion_settings, removed_users, permissions, dicts,
                   delete_all_messages_after_removal, reapers, now, member, hw, rm,
                   chk, recorded, armed_at, unremoves, scan>>

\* /group_add <group_id>, lines 545-616
group_add_cmd ==
    /\ TakeUpdate
    /\ NoHandlerRunning
    /\ \E sender \in Users, args \in Args1(Groups), ok \in BOOLEAN :
         \/ /\ Rejection(sender, args, 1) # ""
            /\ fx' = RejectFx("/group_add", sender, args, 1, ok)
            /\ UNCHANGED <<groups, pending_group_names>>
         \/ /\ Rejection(sender, args, 1) = ""
            /\ \E okG \in BOOLEAN :
                 LET group_id == args[1].val
                     errs == IF okG THEN {} ELSE {LogError("group_exists")}
                 IN  \/ /\ group_exists(group_id, okG)
                        /\ fx' = {Recv(sender, sender, "/group_add"),
                                  Send(sender, "already_added", ok)}
                        /\ UNCHANGED <<groups, pending_group_names>>
                     \/ \* add_group raises
                        /\ ~group_exists(group_id, okG)
                        /\ fx' = {Recv(sender, sender, "/group_add"),
                                  Send(sender, "failed_add", ok)} \cup errs
                        /\ UNCHANGED <<groups, pending_group_names>>
                     \/ \* INSERT OR IGNORE, then the name is awaited
                        /\ ~group_exists(group_id, okG)
                        /\ groups' = groups \cup {group_id}
                        /\ pending_group_names' =
                               [pending_group_names EXCEPT ![sender] = group_id]
                        /\ fx' = {Recv(sender, sender, "/group_add"),
                                  Send(sender, "group_added", ok)} \cup errs
    /\ UNCHANGED <<bypass_users, warnings, warnings_history, tara_links,
                   deletion_settings, removed_users, permissions,
                   pending_user_removals, delete_all_messages_after_removal, reapers,
                   now, member, hw, rm, chk, recorded, armed_at, unremoves, scan>>

\* A foreign key with ON DELETE CASCADE: the rows of the group go with it.
DeleteGroupCascading(group_id) ==
    [groups |-> groups \ {group_id},
     removed_users |-> [p \in Groups \X Users |->
                           IF p[1] = group_id THEN 0 ELSE removed_users[p]]]

\* DELETE FROM groups WHERE group_id = ? (line 652).  The foreign key of
\* removed_users (line 114) has no ON DELETE action and the connection
\* does not turn foreign_keys on: the rows of the group stay.
DeleteGroup(group_id) ==
    [groups |-> groups \ {group_id}, removed_users |-> removed_users]

\* /rmove_group <group_id>, lines 618-685
rmove_group_cmd ==
    /\ TakeUpdate
    /\ NoHandlerRunning
    /\ \E sender \in Users, args \in Args1(Groups), ok \in BOOLEAN :
         \/ /\ Rejection(sender, args, 1) # ""
            /\ fx' = RejectFx("/rmove_group", sender, args, 1, ok)
            /\ UNCHANGED <<groups, removed_users>>
         \/ /\ Rejection(sender, args, 1) = ""
            /\ LET group_id == args[1].val
               IN  \/ \* the DELETE raises
                      /\ fx' = {Recv(sender, sender, "/rmove_group"),
                                Send(sender, "failed_remove", ok)}
                      /\ UNCHANGED <<groups, removed_users>>
                   \/ /\ groups' = DeleteGroup(group_id).groups
                      /\ removed_users' = DeleteGroup(group_id).removed_users
                      /\ \E ok2 \in BOOLEAN :
                           fx' = {Recv(sender, sender, "/rmove_group"),
                                  Send(sender, IF group_id \in groups THEN "group_removed"
                                               ELSE "no_such_group", ok)}
                                 \cup (IF ok THEN {}
                                       ELSE {Send(sender, "failed_remove", ok2)})
    /\ UNCHANGED <<bypass_users, warnings, warnings_history, tara_links,
                   deletion_settings, permissions, dicts,
                   delete_all_messages_after_removal, reapers, now, member, hw, rm,
                   chk, recorded, armed_at, unremoves, scan>>

\* ----------------------------------------------- main.py: the quarantine
is_deletion_enabled(group_id, ok) ==
    IF ok THEN deletion_settings[group_id] = "on" ELSE FALSE

\* lines 279-296: INSERT ... ON CONFLICT(group_id) DO UPDATE SET enabled=1
\* on a connection of its own, which does not turn foreign_keys on: the row
\* is written whether the group is registered or not.  An exception is
\* logged and raised on.
enable_deletion(group_id, ok) ==
    [settings |-> IF ok THEN [deletion_settings EXCEPT ![group_id] = "on"]
                  ELSE deletion_settings,
     raised |-> ~ok]

\* lines 298-315: the same with enabled=0.
disable_deletion(group_id, ok) ==
    [settings |-> IF ok THEN [deletion_settings EXCEPT ![group_id] = "off"]
                  ELSE deletion_settings,
     raised |-> ~ok]

\* A /be_sad that only logs when enable_deletion raises.
be_sad_cmdSilentFailure ==
    /\ TakeUpdate
    /\ NoHandlerRunning
    /\ \E sender \in Users, args \in Args1(Groups), okS \in BOOLEAN, ok \in BOOLEAN :
         \/ /\ Rejection(sender, args, 1) # ""
            /\ fx' = RejectFx("/be_sad", sender, args, 1, ok)
            /\ UNCHANGED deletion_settings
         \/ /\ Rejection(sender, args, 1) = ""
            /\ LET group_id == args[1].val
                   set == enable_deletion(group_id, okS)
               IN  /\ deletion_settings' = set.settings
                   /\ fx' = {Recv(sender, sender, "/be_sad")}
                            \cup (IF set.raised THEN {LogError("enable_deletion")}
                                  ELSE {Send(sender, "enabled", ok)})
    /\ UNCHANGED <<groups, bypass_users, warnings, warnings_history, tara_links,
                   removed_users, permissions, dicts,
                   delete_all_messages_after_removal, reapers, now, member, hw, rm,
                   chk, recorded, armed_at, unremoves, scan>>

\* /be_sad <group_id>, lines 1528-1585.  group_exists is not called.  The
\* confirmation is sent outside the try.
be_sad_cmd ==
    /\ TakeUpdate
    /\ NoHandlerRunning
    /\ \E sender \in Users, args \in Args1(Groups), okS \in BOOLEAN, ok \in BOOLEAN :
         \/ /\ Rejection(sender, args, 1) # ""
            /\ fx' = RejectFx("/be_sad", sender, args, 1, ok)
            /\ UNCHANGED deletion_settings
         \/ /\ Rejection(sender, args, 1) = ""
            /\ LET group_id == args[1].val
                   set == enable_deletion(group_id, okS)
               IN  /\ deletion_settings' = set.settings
                   /\ fx' = {Recv(sender, sender, "/be_sad"),
                             Send(sender, IF set.raised THEN "failed_enable" ELSE "enabled", ok)}
                            \cup (IF set.raised THEN {LogError("enable_deletion")} ELSE {})
    /\ UNCHANGED <<groups, bypass_users, warnings, warnings_history, tara_links,
                   removed_users, permissions, dicts,
                   delete_all_messages_after_removal, reapers, now, member, hw, rm,
                   chk, recorded, armed_at, unremoves, scan>>

\* /be_happy <group_id>, lines 1587-1644
be_happy_cmd ==
    /\ TakeUpdate
    /\ NoHandlerRunning
    /\ \E sender \in Users, args \in Args1(Groups), okS \in BOOLEAN, ok \in BOOLEAN :
         \/ /\ Rejection(sender, args, 1) # ""
            /\ fx' = RejectFx("/be_happy", sender, args, 1, ok)
            /\ UNCHANGED deletion_settings
         \/ /\ Rejection(sender, args, 1) = ""
            /\ LET group_id == args[1].val
                   set == disable_deletion(group_id, okS)
               IN  /\ deletion_settings' = set.settings
                   /\ fx' = {Recv(sender, sender, "/be_happy"),
                             Send(sender, IF set.raised THEN "failed_disable" ELSE "disabled", ok)}
                            \cup (IF set.raised THEN {LogError("disable_deletion")} ELSE {})
    /\ UNCHANGED <<groups, bypass_users, warnings, warnings_history, tara_links,
                   removed_users, permissions, dicts,
                   delete_all_messages_after_removal, reapers, now, member, hw, rm,
                   chk, recorded, armed_at, unremoves, scan>>

\* An INSERT into a table without PRIMARY KEY (group_id, user_id).
add_user_to_removed_usersNoKey(group_id, user_id, ok) ==
    [rows |-> IF ok THEN [removed_users EXCEPT ![<<group_id, user_id>>] = @ + 1]
              ELSE removed_users,
     raised |-> ~ok,
     log |-> IF ok THEN "info" ELSE "error"]

\* An INSERT that is lost.
add_user_to_removed_usersLost(group_id, user_id, ok) ==
    [rows |-> removed_users, raised |-> ~ok, log |-> IF ok THEN "info" ELSE "error"]

\* An INSERT whose IntegrityError is raised on.
add_user_to_removed_usersRaising(group_id, user_id, ok) ==
    [rows |-> IF ok /\ removed_users[<<group_id, user_id>>] = 0
              THEN [removed_users EXCEPT ![<<group_id, user_id>>] = 1]
              ELSE removed_users,
     raised |-> ~ok \/ removed_users[<<group_id, user_id>>] > 0,
     log |-> IF ~ok THEN "error"
             ELSE IF removed_users[<<group_id, user_id>>] > 0 THEN "warning" ELSE "info"]

\* lines 334-352: INSERT under PRIMARY KEY (group_id, user_id).  The
\* IntegrityError of a second insert is swallowed with a warning and the
\* row stays as it is; any other exception is logged and raised on.
add_user_to_removed_users(group_id, user_id, ok) ==
    [rows |-> IF ok /\ removed_users[<<group_id, user_id>>] = 0
              THEN [removed_users EXCEPT ![<<group_id, user_id>>] = 1]
              ELSE removed_users,
     raised |-> ~ok,
     log |-> IF ~ok THEN "error"
             ELSE IF removed_users[<<group_id, user_id>>] > 0 THEN "warning" ELSE "info"]

\* What add_user_to_removed_users has logged beside its info line.
AddLogged(r, group_id, user_id) ==
    IF r.log = "info" THEN {}
    ELSE {Eff(IF r.log = "error" THEN "log_error" ELSE "log_warning",
              group_id, user_id, "add_user_to_removed_users", FALSE)}

\* UPDATE ... WHERE user_id = ?: a user without a row stays without one.
revoke_user_permissions(user_id) ==
    [permissions EXCEPT ![user_id] = IF @ = "none" THEN "none" ELSE "removed"]

\* The users the operator names in a command: the others.
Targets == Users \ {ALLOWED_USER_ID}

\* /rmove_user <group_id> <user_id>, lines 1327-1406: up to the await of
\* ban_chat_member.  remove_bypass_user swallows its exception, so the
\* except branch of lines 1371-1379 is never taken.  At most MaxTasks
\* tasks sleep at a time.
rmove_user_cmd ==
    /\ TakeUpdate
    /\ NoHandlerRunning
    /\ Cardinality(reapers) < MaxTasks
    /\ \E sender \in Users, args \in Args2(Groups, Targets), ok \in BOOLEAN :
         \/ /\ Rejection(sender, args, 2) # ""
            /\ fx' = RejectFx("/rmove_user", sender, args, 2, ok)
            /\ UNCHANGED <<bypass_users, removed_users, permissions, rm>>
         \/ /\ Rejection(sender, args, 2) = ""
            /\ \E okB \in BOOLEAN, okA \in BOOLEAN :
                 LET group_id == args[1].val
                     target_user_id == args[2].val
                     added == add_user_to_removed_users(group_id, target_user_id, okA)
                     got == {Recv(sender, sender, "/rmove_user")}
                            \cup AddLogged(added, group_id, target_user_id)
                 IN  /\ bypass_users' = remove_bypass_user(target_user_id, okB)
                     /\ removed_users' = added.rows
                     /\ \/ \* add_user_to_removed_users has raised
                           /\ added.raised
                           /\ fx' = got \cup
                                  {Send(sender, "failed_add_removed", ok),
                                   Eff("log_error", group_id, target_user_id,
                                       "failed_add_removed", FALSE)}
                           /\ UNCHANGED <<permissions, rm>>
                        \/ \* revoke_user_permissions raises
                           /\ ~added.raised
                           /\ fx' = got \cup
                                  {Send(sender, "failed_revoke", ok),
                                   Eff("log_error", group_id, target_user_id,
                                       "failed_revoke", FALSE)}
                           /\ UNCHANGED <<permissions, rm>>
                        \/ \* on to the ban
                           /\ ~added.raised
                           /\ permissions' = revoke_user_permissions(target_user_id)
                           /\ rm' = [pc |-> "ban", group_id |-> group_id,
                                     target_user_id |-> target_user_id]
                           /\ fx' = got
    /\ UNCHANGED <<groups, warnings, warnings_history, tara_links, deletion_settings,
                   dicts, delete_all_messages_after_removal, reapers, now, member,
                   hw, chk, recorded, armed_at, unremoves, scan>>

\* A /rmove_user that sets the flag and creates no task to remove it.
rmove_user_bannedNoTask ==
    /\ rm.pc = "ban"
    /\ \E okBan \in BOOLEAN, ok \in BOOLEAN :
         LET group_id == rm.group_id
             call == Eff("ban_chat_member", group_id, rm.target_user_id, "", okBan)
         IN  \/ /\ ~okBan
                /\ fx' = {call, Send(ALLOWED_USER_ID, "failed_ban", ok)}
                /\ UNCHANGED <<delete_all_messages_after_removal, reapers, member,
                               armed_at>>
             \/ /\ okBan
                /\ member' = [member EXCEPT ![<<group_id, rm.target_user_id>>] = "kicked"]
                /\ delete_all_messages_after_removal' =
                       [delete_all_messages_after_removal EXCEPT
                          ![group_id] = now + MESSAGE_DELETE_TIMEFRAME]
                /\ armed_at' = [armed_at EXCEPT ![group_id] = now]
                /\ fx' = {call, Send(ALLOWED_USER_ID, "removed", ok)}
                /\ UNCHANGED reapers
    /\ rm' = RmIdle
    /\ UNCHANGED <<store, dicts, now, hw, chk, recorded, unremoves, updates_left, scan>>

\* lines 1408-1442: ban_chat_member returns.  A failed ban ends the handler
\* before the flag is set; otherwise the flag of the group is set to
\* utcnow() + MESSAGE_DELETE_TIMEFRAME and the task that removes it is
\* created, to wake MESSAGE_DELETE_TIMEFRAME seconds later.  Two tasks made
\* for one group at one reading of the clock are one element of reapers.
rmove_user_banned ==
    /\ rm.pc = "ban"
    /\ \E okBan \in BOOLEAN, ok \in BOOLEAN :
         LET group_id == rm.group_id
             call == Eff("ban_chat_member", group_id, rm.target_user_id, "", okBan)
         IN  \/ /\ ~okBan
                /\ fx' = {call, Send(ALLOWED_USER_ID, "failed_ban", ok)}
                /\ UNCHANGED <<delete_all_messages_after_removal, reapers, member,
                               armed_at>>
             \/ /\ okBan
                /\ member' = [member EXCEPT ![<<group_id, rm.target_user_id>>] = "kicked"]
                /\ delete_all_messages_after_removal' =
                       [delete_all_messages_after_removal EXCEPT
                          ![group_id] = now + MESSAGE_DELETE_TIMEFRAME]
                /\ reapers' = reapers \cup
                       {[group_id |-> group_id, wake |-> now + MESSAGE_DELETE_TIMEFRAME]}
                /\ armed_at' = [armed_at EXCEPT ![group_id] = now]
                /\ fx' = {call, Send(ALLOWED_USER_ID, "removed", ok)}
    /\ rm' = RmIdle
    /\ UNCHANGED <<store, dicts, now, hw, chk, recorded, unremoves, updates_left, scan>>

\* lines 1518-1524: a task whose sleep is over wakes.
remove_deletion_flag_after_timeout ==
    /\ \E r \in reapers :
         /\ now >= r.wake
         /\ delete_all_messages_after_removal' =
                [delete_all_messages_after_removal EXCEPT ![r.group_id] = NoFlag]
         /\ reapers' = reapers \ {r}
    /\ fx' = {}
    /\ UNCHANGED <<store, dicts, now, member, hw, rm, chk, recorded, armed_at, unremoves, updates_left,
                   scan>>

\* The clock moves on, 5 seconds at a time.  A task whose sleep is over wakes before the clock
\* reaches the next point of the grid.
Tick ==
    /\ now + 5 <= MaxTime
    /\ \A r \in reapers : r.wake > now
    /\ now' = now + 5
    /\ fx' = {}
    /\ UNCHANGED <<store, dicts, delete_all_messages_after_removal, reapers, member,
                   hw, rm, chk, recorded, armed_at, unremoves, updates_left, scan>>

\* What a group can receive: a plain text, a registered command, a command
\* no handler is registered for, a message without text, a service message.
MessageKinds == {"text", "/help", "/unknown", "photo", "new_chat_members"}

\* main(), lines 1903-1940: all handlers are in one handler group, so the
\* first whose filter matches is the only one that handles the update.
Route(kind) ==
    IF kind = "/help" THEN "help_cmd"
    ELSE IF kind \in {"text", "text_arabic"} THEN "delete_arabic_messages"
    ELSE "delete_any_messages"

\* A handler of an update of a group changes nothing but fx, the update
\* taken.
GroupUpdateOnly ==
    UNCHANGED <<store, dicts, delete_all_messages_after_removal, reapers, now,
                member, hw, rm, chk, recorded, armed_at, unremoves, scan>>

\* /help sent in a group, lines 950-993.
help_cmd ==
    /\ TakeUpdate
    /\ NoHandlerRunning
    /\ \E group_id \in Groups, user \in Users, ok \in BOOLEAN :
         fx' = {Recv(group_id, user, "/help")}
               \cup (IF user # ALLOWED_USER_ID THEN {}
                     ELSE {Send(user, "help", ok)}
                          \cup (IF ok THEN {} ELSE {Send(user, "help_failed", TRUE)}))
    /\ GroupUpdateOnly

\* lines 1446-1478
delete_arabic_messages ==
    /\ TakeUpdate
    /\ NoHandlerRunning
    /\ \E group_id \in Groups, user \in Users, text \in Texts \ {<<>>},
          okD \in BOOLEAN, okB \in BOOLEAN, ok \in BOOLEAN :
         /\ Route(TextKind(text)) = "delete_arabic_messages"
         /\ fx' = {Recv(group_id, user, TextKind(text))}
                  \cup (IF /\ is_deletion_enabled(group_id, okD)
                           /\ ~is_bypass_user(user, okB)
                           /\ is_arabic(text)
                        THEN {Eff("delete_message", group_id, user,
                                  "delete_arabic_messages", ok)}
                        ELSE {})
    /\ GroupUpdateOnly

\* --------------------------------------------------------- delete.py
\* The users be_sad_cmd and be_happy_cmd of delete.py accept (lines 84 and
\* 145): the operator and 111111, who is not among Users.
DeleteOperators == {ALLOWED_USER_ID}

\* The checks of a command of delete.py, lines 83-111; every answer is a
\* reply into the chat the command came from.
delete_py_Rejection(sender, args) ==
    IF sender \notin DeleteOperators THEN "no_permission"
    ELSE IF Len(args) # 1 THEN "usage"
    ELSE IF ~args[1].isInt THEN "not_integer"
    ELSE ""

\* delete.py, /be_sad <group_id>, lines 74-133
delete_py_be_sad_cmd ==
    /\ TakeUpdate
    /\ NoHandlerRunning
    /\ \E sender \in Users, chat \in Groups \cup Users, args \in Args1(Groups),
          okS \in BOOLEAN, ok \in BOOLEAN :
         /\ chat \in Users => chat = sender
         /\ \/ /\ delete_py_Rejection(sender, args) # ""
               /\ fx' = {Recv(chat, sender, "/be_sad"),
                         Eff("reply_text", chat, sender,
                             delete_py_Rejection(sender, args), ok)}
               /\ UNCHANGED deletion_settings
            \/ /\ delete_py_Rejection(sender, args) = ""
               /\ LET group_id == args[1].val
                      set == enable_deletion(group_id, okS)
                  IN  /\ deletion_settings' = set.settings
                      /\ fx' = {Recv(chat, sender, "/be_sad"),
                                Eff("reply_text", chat, sender,
                                    IF set.raised THEN "failed_enable" ELSE "enabled", ok)}
                               \cup (IF set.raised THEN {LogError("enable_deletion")}
                                     ELSE {})
    /\ UNCHANGED <<groups, bypass_users, warnings, warnings_history, tara_links,
                   removed_users, permissions, dicts,
                   delete_all_messages_after_removal, reapers, now, member, hw, rm,
                   chk, recorded, armed_at, unremoves, scan>>

\* delete.py, /be_happy <group_id>, lines 135-194
delete_py_be_happy_cmd ==
    /\ TakeUpdate
    /\ NoHandlerRunning
    /\ \E sender \in Users, chat \in Groups \cup Users, args \in Args1(Groups),
          okS \in BOOLEAN, ok \in BOOLEAN :
         /\ chat \in Users => chat = sender
         /\ \/ /\ delete_py_Rejection(sender, args) # ""
               /\ fx' = {Recv(chat, sender, "/be_happy"),
                         Eff("reply_text", chat, sender,
                             delete_py_Rejection(sender, args), ok)}
               /\ UNCHANGED deletion_settings
            \/ /\ delete_py_Rejection(sender, args) = ""
               /\ LET group_id == args[1].val
                      set == disable_deletion(group_id, okS)
                  IN  /\ deletion_settings' = set.settings
                      /\ fx' = {Recv(chat, sender, "/be_happy"),
                                Eff("reply_text", chat, sender,
                                    IF set.raised THEN "failed_disable" ELSE "disabled", ok)}
                               \cup (IF set.raised THEN {LogError("disable_deletion")}
                                     ELSE {})
    /\ UNCHANGED <<groups, bypass_users, warnings, warnings_history, tara_links,
                   removed_users, permissions, dicts,
                   delete_all_messages_after_removal, reapers, now, member, hw, rm,
                   chk, recorded, armed_at, unremoves, scan>>

\* delete.py, lines 198-234: the filter of the module.  The bypass list is
\* not read.  The warning is a reply into the group, sent when the delete
\* call returned; a delete call that raises is logged.
delete_py_delete_arabic_messages ==
    /\ TakeUpdate
    /\ NoHandlerRunning
    /\ \E group_id \in Groups, user \in Users, text \in Texts \ {<<>>},
          okD \in BOOLEAN, ok \in BOOLEAN, ok2 \in BOOLEAN :
         fx' = {Recv(group_id, user, TextKind(text))}
               \cup (IF is_deletion_enabled(group_id, okD) /\ is_arabic(text)
                     THEN {Eff("delete_message", group_id, user,
                               "delete_arabic_messages", ok)}
                          \cup (IF ok
                                THEN {Eff("reply_text", group_id, user,
                                          "arabic_not_allowed", ok2)}
                                ELSE {LogError("delete_arabic_messages")})
                     ELSE {})
    /\ GroupUpdateOnly

\* lines 1480-1498
delete_any_messages ==
    /\ TakeUpdate
    /\ NoHandlerRunning
    /\ \E group_id \in Groups, user \in Users, kind \in MessageKinds, ok \in BOOLEAN :
         /\ Route(kind) = "delete_any_messages"
         /\ fx' = {Recv(group_id, user, kind)}
                  \cup (IF delete_all_messages_after_removal[group_id] # NoFlag
                        THEN {Eff("delete_message", group_id, user,
                                  "delete_any_messages", ok)}
                        ELSE {})
    /\ GroupUpdateOnly

\* ------------------------------------------------- main.py: the registry
\* /add_removed_user <group_id> <user_id>, lines 1081-1179
add_removed_user_cmd ==
    /\ TakeUpdate
    /\ NoHandlerRunning
    /\ \E sender \in Users, args \in Args2(Groups, Users), ok \in BOOLEAN :
         \/ /\ Rejection(sender, args, 2) # ""
            /\ fx' = RejectFx("/add_removed_user", sender, args, 2, ok)
            /\ UNCHANGED removed_users
         \/ /\ Rejection(sender, args, 2) = ""
            /\ LET group_id == args[1].val
                   target_user_id == args[2].val
                   answer(what) == {Recv(sender, sender, "/add_removed_user"),
                                    Send(sender, what, ok)}
               IN  \/ /\ \E okG \in BOOLEAN : ~group_exists(group_id, okG)
                      /\ fx' = answer("not_registered")
                      /\ UNCHANGED removed_users
                   \/ \* the SELECT of the row raises
                      /\ group_exists(group_id, TRUE)
                      /\ fx' = answer("failed_check")
                      /\ UNCHANGED removed_users
                   \/ /\ group_exists(group_id, TRUE)
                      /\ removed_users[<<group_id, target_user_id>>] > 0
                      /\ fx' = answer("already_removed")
                      /\ UNCHANGED removed_users
                   \/ \* the INSERT raises
                      /\ group_exists(group_id, TRUE)
                      /\ removed_users[<<group_id, target_user_id>>] = 0
                      /\ fx' = answer("failed_add")
                      /\ UNCHANGED removed_users
                   \/ \* the row is inserted; a confirmation that raises is
                      \* answered by the except branch of the same try
                      /\ group_exists(group_id, TRUE)
                      /\ removed_users[<<group_id, target_user_id>>] = 0
                      /\ removed_users' =
                             [removed_users EXCEPT ![<<group_id, target_user_id>>] = 1]
                      /\ fx' = answer("added")
                               \cup (IF ok THEN {} ELSE {Send(sender, "failed_add", TRUE)})
    /\ UNCHANGED <<groups, bypass_users, warnings, warnings_history, tara_links,
                   deletion_settings, permissions, dicts,
                   delete_all_messages_after_removal, reapers, now, member, hw, rm,
                   chk, recorded, armed_at, unremoves, scan>>

\* The rows of a SELECT without ORDER BY come in an order sqlite chooses.
Orders(S) ==
    {s \in [1..Cardinality(S) -> S] :
        \A i, j \in 1..Cardinality(S) : i # j => s[i] # s[j]}

\* Forgets the administrators and the creator.
StillInGroupMembersOnly(ok, status) ==
    ok /\ status = "member"

\* lines 1731-1743: the user is still in the group when get_chat_member
\* returned and the status is one of the three; an exception counts as
\* not in the group.
StillInGroup(ok, status) ==
    ok /\ status \in {"member", "administrator", "creator"}

\* /check <group_id>, lines 1648-1727: up to the first get_chat_member
check_cmd ==
    /\ TakeUpdate
    /\ NoHandlerRunning
    /\ \E sender \in Users, args \in Args1(Groups), ok \in BOOLEAN :
         \/ /\ Rejection(sender, args, 1) # ""
            /\ fx' = RejectFx("/check", sender, args, 1, ok)
            /\ UNCHANGED chk
         \/ /\ Rejection(sender, args, 1) = ""
            /\ LET group_id == args[1].val
                   rows == {u \in Users : removed_users[<<group_id, u>>] > 0}
                   answer(what) == {Recv(sender, sender, "/check"), Send(sender, what, ok)}
               IN  \/ /\ \E okG \in BOOLEAN : ~group_exists(group_id, okG)
                      /\ fx' = answer("not_registered")
                      /\ UNCHANGED chk
                   \/ \* the SELECT of the rows raises
                      /\ group_exists(group_id, TRUE)
                      /\ fx' = answer("failed_fetch")
                      /\ UNCHANGED chk
                   \/ /\ group_exists(group_id, TRUE)
                      /\ rows = {}
                      /\ fx' = answer("no_removed_users")
                      /\ UNCHANGED chk
                   \/ /\ group_exists(group_id, TRUE)
                      /\ rows # {}
                      /\ \E order \in Orders(rows) :
                           chk' = [ChkIdle EXCEPT !.pc = "lookup",
                                                  !.group_id = group_id,
                                                  !.removed_users = order,
                                                  !.todo = order]
                      /\ fx' = {Recv(sender, sender, "/check")}
    /\ UNCHANGED <<store, dicts, delete_all_messages_after_removal, reapers, now,
                   member, hw, rm, recorded, armed_at, unremoves, scan>>

\* lines 1730-1743: one round of the loop, when get_chat_member returns
check_lookup ==
    /\ chk.pc = "lookup"
    /\ \E ok \in BOOLEAN :
         LET user_id == Head(chk.todo)
             rest == Tail(chk.todo)
             status == member[<<chk.group_id, user_id>>]
             still == StillInGroup(ok, status)
         IN  /\ chk' = [chk EXCEPT
                   !.pc = IF rest = <<>> THEN "report" ELSE "lookup",
                   !.todo = rest,
                   !.users_still_in_group = IF still THEN Append(@, user_id) ELSE @,
                   !.users_not_in_group = IF still THEN @ ELSE Append(@, user_id),
                   !.lookups = Append(@, [user_id |-> user_id, ok |-> ok,
                                          status |-> status])]
             /\ fx' = {Eff("get_chat_member", chk.group_id, user_id,
                           IF ok THEN status ELSE "", ok)}
    /\ UNCHANGED <<store, dicts, delete_all_messages_after_removal, reapers, now,
                   member, hw, rm, recorded, armed_at, unremoves, updates_left, scan>>

\* lines 1745-1781: the report is sent; when that raises the handler
\* answers with an error message and returns before the bans.
check_report ==
    /\ chk.pc = "report"
    /\ \E ok \in BOOLEAN, ok2 \in BOOLEAN :
         \/ /\ ok
            /\ fx' = {Send(ALLOWED_USER_ID, "check_results", TRUE)}
            /\ chk' = IF chk.users_still_in_group = <<>> THEN ChkIdle
                      ELSE [chk EXCEPT !.pc = "ban", !.todo = chk.users_still_in_group]
         \/ /\ ~ok
            /\ fx' = {Send(ALLOWED_USER_ID, "check_results", FALSE),
                      Send(ALLOWED_USER_ID, "check_failed", ok2)}
            /\ chk' = ChkIdle
    /\ UNCHANGED <<store, dicts, delete_all_messages_after_removal, reapers, now,
                   member, hw, rm, recorded, armed_at, unremoves, updates_left, scan>>

\* lines 1782-1787: one round of the ban loop
check_ban ==
    /\ chk.pc = "ban"
    /\ \E ok \in BOOLEAN :
         LET uid == Head(chk.todo)
             rest == Tail(chk.todo)
         IN  /\ member' = IF ok THEN [member EXCEPT ![<<chk.group_id, uid>>] = "kicked"]
                          ELSE member
             /\ fx' = {Eff("ban_chat_member", chk.group_id, uid, "", ok)}
             /\ chk' = IF rest = <<>> THEN ChkIdle
                       ELSE [chk EXCEPT !.todo = rest,
                                        !.bans = Append(@, [user_id |-> uid, ok |-> ok])]
    /\ UNCHANGED <<store, dicts, delete_all_messages_after_removal, reapers, now,
                   hw, rm, recorded, armed_at, unremoves, updates_left, scan>>

\* The platform: a user of a registered group joins, leaves, is promoted,
\* restricted or banned by somebody else.
membership_changes ==
    /\ \E group_id \in groups, user_id \in Users, status \in Statuses :
         /\ member[<<group_id, user_id>>] # status
         /\ member' = [member EXCEPT ![<<group_id, user_id>>] = status]
    /\ fx' = {}
    /\ UNCHANGED <<store, dicts, delete_all_messages_after_removal, reapers, now,
                   hw, rm, chk, recorded, armed_at, unremoves, updates_left, scan>>

\* ------------------------------------------------- main.py: the unremove
\* A DELETE that forgets the user: WHERE group_id = ?.
DeleteRowOfGroup(rows, group_id, user_id) ==
    [p \in DOMAIN rows |-> IF p[1] = group_id THEN 0 ELSE rows[p]]

\* DELETE FROM removed_users WHERE group_id = ? AND user_id = ?, the
\* statement of lines 361 and 492.
DeleteRow(rows, group_id, user_id) ==
    [rows EXCEPT ![<<group_id, user_id>>] = 0]

\* lines 354-373: the DELETE on a connection of its own.  True when
\* a row went, False when none was there and False when the DELETE raised.
remove_user_from_removed_users(rows, group_id, user_id, ok) ==
    [rows |-> IF ok THEN DeleteRow(rows, group_id, user_id) ELSE rows,
     result |-> ok /\ rows[<<group_id, user_id>>] > 0]

\* /list_rmoved_rmove <group_id>, lines 1261-1323: the operator is asked
\* for the user_id to take out of the list of the group.
list_rmoved_rmove_cmd ==
    /\ TakeUpdate
    /\ NoHandlerRunning
    /\ \E sender \in Users, args \in Args1(Groups), ok \in BOOLEAN :
         \/ /\ Rejection(sender, args, 1) # ""
            /\ fx' = RejectFx("/list_rmoved_rmove", sender, args, 1, ok)
            /\ UNCHANGED pending_user_removals
         \/ /\ Rejection(sender, args, 1) = ""
            /\ \E okG \in BOOLEAN :
                 LET group_id == args[1].val
                 IN  IF group_exists(group_id, okG)
                     THEN /\ pending_user_removals' =
                                 [pending_user_removals EXCEPT ![sender] = group_id]
                          /\ fx' = {Recv(sender, sender, "/list_rmoved_rmove"),
                                    Send(sender, "send_user_id", ok)}
                     ELSE /\ fx' = {Recv(sender, sender, "/list_rmoved_rmove"),
                                    Send(sender, "not_registered", ok)}
                          /\ UNCHANGED pending_user_removals
    /\ UNCHANGED <<store, pending_group_names, delete_all_messages_after_removal,
                   reapers, now, member, hw, rm, chk, recorded, armed_at, unremoves,
                   scan>>

\* A pop that leaves the key in the dictionary.
popKeepsKey(d, key) == d

\* dict.pop(key) of lines 429 and 463: the key is gone from the dictionary.
pop(d, key) == [d EXCEPT ![key] = NoGroup]

\* What the handler logs about the row of an unremove.
Unremove(group_id, user_id, what) == Eff("unremove", group_id, user_id, what, TRUE)

\* A text that is no command, sent to the bot in private, lines 419-525.
\* The name of a group is awaited first (lines 427-459), then the user_id
\* of an unremove (lines 461-525): SELECT, DELETE, revoke_user_permissions,
\* confirmation.  A "not in the list" answer that raises is answered by the
\* except branch of the same try.
handle_private_message ==
    /\ TakeUpdate
    /\ NoHandlerRunning
    /\ \E sender \in Users, text \in Toks(Users), ok \in BOOLEAN :
         LET got == Recv(sender, sender, "text")
         IN  \/ /\ pending_group_names[sender] # NoGroup
                /\ pending_group_names' = pop(pending_group_names, sender)
                /\ \E what \in {"name_set", "failed_set_name"} :
                     fx' = {got, Send(sender, what, ok)}
                /\ UNCHANGED <<removed_users, permissions, pending_user_removals,
                               unremoves>>
             \/ /\ pending_group_names[sender] = NoGroup
                /\ pending_user_removals[sender] = NoGroup
                /\ fx' = {got}
                /\ UNCHANGED <<removed_users, permissions, dicts, unremoves>>
             \/ /\ pending_group_names[sender] = NoGroup
                /\ pending_user_removals[sender] # NoGroup
                /\ pending_user_removals' = pop(pending_user_removals, sender)
                /\ UNCHANGED pending_group_names
                /\ LET group_id == pending_user_removals[sender]
                       target_user_id == text.val
                       present == removed_users[<<group_id, target_user_id>>] > 0
                   IN  \/ /\ ~text.isInt
                          /\ fx' = {got, Send(sender, "not_integer", ok)}
                          /\ UNCHANGED <<removed_users, permissions, unremoves>>
                       \/ \* the SELECT, the DELETE or the commit raises
                          /\ text.isInt
                          /\ fx' = {got, Unremove(group_id, target_user_id, "failed"),
                                    Send(sender, "failed_unremove", ok)}
                          /\ UNCHANGED <<removed_users, permissions, unremoves>>
                       \/ /\ text.isInt
                          /\ ~present
                          /\ fx' = {got, Unremove(group_id, target_user_id, "not_found"),
                                    Send(sender, "not_in_list", ok)}
                                   \cup (IF ok THEN {}
                                         ELSE {Send(sender, "failed_unremove", TRUE)})
                          /\ UNCHANGED <<removed_users, permissions, unremoves>>
                       \/ /\ text.isInt
                          /\ present
                          /\ removed_users' =
                                 DeleteRow(removed_users, group_id, target_user_id)
                          /\ \E okP \in BOOLEAN :
                               permissions' = IF okP THEN revoke_user_permissions(target_user_id)
                                              ELSE permissions
                          /\ unremoves' = <<<<group_id, target_user_id>>>>
                          /\ fx' = {got, Unremove(group_id, target_user_id, "deleted"),
                                    Send(sender, "unremoved", ok)}
    /\ UNCHANGED <<groups, bypass_users, warnings, warnings_history, tara_links,
                   deletion_settings, delete_all_messages_after_removal, reapers, now,
                   member, hw, rm, chk, recorded, armed_at, scan>>

\* ------------------------------------------------------ specifications
\* The warning ledger: the handle_warnings coroutines, started in any
\* configuration of registered groups and bypassed users that /group_add
\* and /bypass can have set up.
InitWarnings ==
    /\ groups \in {Groups} \cup {Groups \ {g} : g \in Groups}
    /\ bypass_users \in {{}} \cup {{u} : u \in Users}
    /\ warnings = [u \in Users |-> 0]
    /\ warnings_history = <<>>
    /\ tara_links = OneTara
    /\ deletion_settings = [g \in Groups |-> "unset"]
    /\ removed_users = [p \in Groups \X Users |-> 0]
    /\ permissions = InitialPermissions
    /\ pending_group_names = [u \in Users |-> NoGroup]
    /\ pending_user_removals = [u \in Users |-> NoGroup]
    /\ delete_all_messages_after_removal = [g \in Groups |-> NoFlag]
    /\ reapers = {}
    /\ now = 0
    /\ member = [p \in Groups \X Users |-> "member"]
    /\ hw = [h \in Handlers |-> HwIdle]
    /\ rm = RmIdle
    /\ chk = ChkIdle
    /\ fx = {}
    /\ recorded = [u \in Users |-> 0]
    /\ armed_at = [g \in Groups |-> NoFlag]
    /\ unremoves = <<>>
    /\ scan = NoScan
    /\ updates_left = Unbounded

NextWarnings ==
    \/ \E h \in Handlers : handle_warnings(h)
    \/ \E h \in Handlers : hw_reply_unregistered(h)
    \/ \E h \in Handlers : hw_notify(h)
    \/ \E h \in Handlers : hw_report(h)

SpecWarnings == InitWarnings /\ [][NextWarnings]_vars

\* The quarantine: /rmove_user, the tasks it creates, the clock and the
\* updates of the groups, started with the Arabic filter of the first
\* group on or off and the last user bypassed or not, as /be_sad and
\* /bypass can have set them.
InitQuarantine ==
    /\ groups = Groups
    /\ \E filtering \in BOOLEAN :
         /\ bypass_users = IF filtering THEN {NUsers} ELSE {}
         /\ deletion_settings =
                [g \in Groups |-> IF filtering /\ g = 101 THEN "on" ELSE "unset"]
    /\ warnings = [u \in Users |-> 0]
    /\ warnings_history = <<>>
    /\ tara_links = OneTara
    /\ removed_users = [p \in Groups \X Users |-> 0]
    /\ permissions = InitialPermissions
    /\ pending_group_names = [u \in Users |-> NoGroup]
    /\ pending_user_removals = [u \in Users |-> NoGroup]
    /\ delete_all_messages_after_removal = [g \in Groups |-> NoFlag]
    /\ reapers = {}
    /\ now = 0
    /\ member = [p \in Groups \X Users |-> "member"]
    /\ hw = [h \in Handlers |-> HwIdle]
    /\ rm = RmIdle
    /\ chk = ChkIdle
    /\ fx = {}
    /\ recorded = [u \in Users |-> 0]
    /\ armed_at = [g \in Groups |-> NoFlag]
    /\ unremoves = <<>>
    /\ scan = NoScan
    /\ updates_left = Unbounded

NextQuarantine ==
    \/ rmove_user_cmd
    \/ rmove_user_banned
    \/ remove_deletion_flag_after_timeout
    \/ Tick
    \/ help_cmd
    \/ delete_arabic_messages
    \/ delete_any_messages

SpecQuarantine == InitQuarantine /\ [][NextQuarantine]_vars

\* The tasks of the quarantine under the scheduling of the event loop.
\* ban_chat_member returns while the clock of the model can still reach
\* the end of the sleep that starts then.
rmove_user_banned_in_time ==
    /\ now + MESSAGE_DELETE_TIMEFRAME <= MaxTime
    /\ rmove_user_banned

NextReap ==
    \/ rmove_user_cmd
    \/ rmove_user_banned_in_time
    \/ remove_deletion_flag_after_timeout
    \/ Tick

\* Time passes, and the event loop runs every task whose sleep is over
\* (asyncio.create_task, line 1427; asyncio.sleep, line 1520).
SpecReap ==
    /\ InitQuarantine
    /\ [][NextReap]_vars
    /\ WF_vars(Tick)
    /\ WF_vars(remove_deletion_flag_after_timeout)

\* The reconciler: /check and /add_removed_user with the first group
\* registered, while the membership of its users changes on the platform.
InitCheck ==
    /\ groups = {101}
    /\ bypass_users = {}
    /\ warnings = [u \in Users |-> 0]
    /\ warnings_history = <<>>
    /\ tara_links = OneTara
    /\ deletion_settings = [g \in Groups |-> "unset"]
    /\ removed_users = [p \in Groups \X Users |-> 0]
    /\ permissions = InitialPermissions
    /\ pending_group_names = [u \in Users |-> NoGroup]
    /\ pending_user_removals = [u \in Users |-> NoGroup]
    /\ delete_all_messages_after_removal = [g \in Groups |-> NoFlag]
    /\ reapers = {}
    /\ now = 0
    /\ member = [p \in Groups \X Users |-> "member"]
    /\ hw = [h \in Handlers |-> HwIdle]
    /\ rm = RmIdle
    /\ chk = ChkIdle
    /\ fx = {}
    /\ recorded = [u \in Users |-> 0]
    /\ armed_at = [g \in Groups |-> NoFlag]
    /\ unremoves = <<>>
    /\ scan = NoScan
    /\ updates_left = Unbounded

NextCheck ==
    \/ add_removed_user_cmd
    \/ check_cmd
    \/ check_lookup
    \/ check_report
    \/ check_ban
    \/ membership_changes

SpecCheck == InitCheck /\ [][NextCheck]_vars

\* The state MESSAGE_DELETE_TIMEFRAME seconds after a first /rmove_user of
\* the last user from the last group: the row is there, the flag of the
\* group is set and the task that removes it is due.  The operator is
\* bypassed.
RegistryStart ==
    /\ groups = Groups
    /\ bypass_users = {ALLOWED_USER_ID}
    /\ warnings = [u \in Users |-> 0]
    /\ warnings_history = <<>>
    /\ tara_links = OneTara
    /\ deletion_settings = [g \in Groups |-> "unset"]
    /\ removed_users =
           [p \in Groups \X Users |-> IF p = <<100 + NGroups, NUsers>> THEN 1 ELSE 0]
    /\ permissions = [InitialPermissions EXCEPT ![NUsers] = "removed"]
    /\ pending_group_names = [u \in Users |-> NoGroup]
    /\ pending_user_removals = [u \in Users |-> NoGroup]
    /\ delete_all_messages_after_removal =
           [g \in Groups |-> IF g = 100 + NGroups THEN MESSAGE_DELETE_TIMEFRAME
                             ELSE NoFlag]
    /\ reapers = {[group_id |-> 100 + NGroups, wake |-> MESSAGE_DELETE_TIMEFRAME]}
    /\ now = MESSAGE_DELETE_TIMEFRAME
    /\ member = [p \in Groups \X Users |->
                    IF p = <<100 + NGroups, NUsers>> THEN "kicked" ELSE "member"]
    /\ hw = [h \in Handlers |-> HwIdle]
    /\ rm = RmIdle
    /\ chk = ChkIdle
    /\ fx = {}
    /\ recorded = [u \in Users |-> 0]
    /\ armed_at = [g \in Groups |-> IF g = 100 + NGroups THEN 0 ELSE NoFlag]
    /\ unremoves = <<>>
    /\ scan = NoScan

\* The removal registry: the handlers that write removed_users, for as long
\* as the bot runs.
InitRegistry == RegistryStart /\ updates_left = Unbounded

NextRegistry ==
    \/ rmove_user_cmd
    \/ rmove_user_banned
    \/ remove_deletion_flag_after_timeout
    \/ add_removed_user_cmd
    \/ list_rmoved_rmove_cmd
    \/ handle_private_message

SpecRegistry == InitRegistry /\ [][NextRegistry]_vars

\* The registry among everything else: every handler that reads or writes
\* removed_users or runs beside those that do, for MaxUpdates updates.
InitFrame == RegistryStart /\ updates_left = MaxUpdates

NextFrame ==
    \/ rmove_user_cmd
    \/ rmove_user_banned
    \/ remove_deletion_flag_after_timeout
    \/ add_removed_user_cmd
    \/ list_rmoved_rmove_cmd
    \/ handle_private_message
    \/ check_cmd
    \/ check_lookup
    \/ check_report
    \/ check_ban
    \/ rmove_group_cmd
    \/ unbypass_cmd
    \/ help_cmd
    \/ delete_arabic_messages
    \/ delete_any_messages

SpecFrame == InitFrame /\ [][NextFrame]_vars

\* The operator's commands: every command handler of main() that writes
\* the store or a dictionary, and the private text that follows some of
\* them, for one update less than MaxUpdates.  The first group is
\* registered, the others are not.
InitCommands ==
    /\ groups = {101}
    /\ bypass_users = {}
    /\ warnings = [u \in Users |-> 0]
    /\ warnings_history = <<>>
    /\ tara_links = OneTara
    /\ deletion_settings = [g \in Groups |-> "unset"]
    /\ removed_users = [p \in Groups \X Users |-> 0]
    /\ permissions = InitialPermissions
    /\ pending_group_names = [u \in Users |-> NoGroup]
    /\ pending_user_removals = [u \in Users |-> NoGroup]
    /\ delete_all_messages_after_removal = [g \in Groups |-> NoFlag]
    /\ reapers = {}
    /\ now = 0
    /\ member = [p \in Groups \X Users |-> "member"]
    /\ hw = [h \in Handlers |-> HwIdle]
    /\ rm = RmIdle
    /\ chk = ChkIdle
    /\ fx = {}
    /\ recorded = [u \in Users |-> 0]
    /\ armed_at = [g \in Groups |-> NoFlag]
    /\ unremoves = <<>>
    /\ scan = NoScan
    /\ updates_left = MaxUpdates - 1

NextCommands ==
    \/ group_add_cmd
    \/ rmove_group_cmd
    \/ bypass_cmd
    \/ unbypass_cmd
    \/ be_sad_cmd
    \/ be_happy_cmd
    \/ rmove_user_cmd
    \/ rmove_user_banned
    \/ add_removed_user_cmd
    \/ list_rmoved_rmove_cmd
    \/ handle_private_message
    \/ check_cmd
    \/ check_lookup
    \/ check_report
    \/ check_ban
    \/ help_cmd

SpecCommands == InitCommands /\ [][NextCommands]_vars

\* The state the filters start in: every group registered, nothing set,
\* the last user bypassed or nobody.
FilterStart ==
    /\ groups = Groups
    /\ bypass_users \in {{}, {NUsers}}
    /\ warnings = [u \in Users |-> 0]
    /\ warnings_history = <<>>
    /\ tara_links = OneTara
    /\ deletion_settings = [g \in Groups |-> "unset"]
    /\ removed_users = [p \in Groups \X Users |-> 0]
    /\ permissions = InitialPermissions
    /\ pending_group_names = [u \in Users |-> NoGroup]
    /\ pending_user_removals = [u \in Users |-> NoGroup]
    /\ delete_all_messages_after_removal = [g \in Groups |-> NoFlag]
    /\ reapers = {}
    /\ now = 0
    /\ member = [p \in Groups \X Users |-> "member"]
    /\ hw = [h \in Handlers |-> HwIdle]
    /\ rm = RmIdle
    /\ chk = ChkIdle
    /\ fx = {}
    /\ recorded = [u \in Users |-> 0]
    /\ armed_at = [g \in Groups |-> NoFlag]
    /\ unremoves = <<>>
    /\ scan = NoScan

\* The content filter of main.py with the commands that decide what it
\* does: /be_sad, /be_happy, /bypass and /unbypass, for MaxUpdates updates.
InitFilter == FilterStart /\ updates_left = MaxUpdates

NextFilter ==
    \/ be_sad_cmd
    \/ be_happy_cmd
    \/ bypass_cmd
    \/ unbypass_cmd
    \/ delete_arabic_messages

SpecFilter == InitFilter /\ [][NextFilter]_vars

\* The module delete.py on its own, as init_delete_module registers it
\* (lines 247-261), for MaxUpdates updates.
InitDelete == FilterStart /\ updates_left = MaxUpdates

NextDelete ==
    \/ delete_py_be_sad_cmd
    \/ delete_py_be_happy_cmd
    \/ delete_py_delete_arabic_messages

SpecDelete == InitDelete /\ [][NextDelete]_vars

\* The four is_arabic of the repository are called with the same str.
scan_is_arabic ==
    /\ scan.pc = "input"
    /\ scan.text.isStr
    /\ scan' = [scan EXCEPT !.pc = "is_arabic",
                            !.results = <<utils_is_arabic(scan.text.chars),
                                          main_is_arabic(scan.text.chars),
                                          is_arabic(scan.text.chars),
                                          delete_py_is_arabic(scan.text.chars)>>]
    /\ fx' = {}
    /\ UNCHANGED <<store, dicts, delete_all_messages_after_removal, reapers, now,
                   member, hw, rm, chk, recorded, armed_at, unremoves, updates_left>>

\* check_arabic is called with a str or with None.
scan_check_arabic ==
    /\ scan.pc = "input"
    /\ LET r == check_arabic(scan.text)
       IN  /\ scan' = [scan EXCEPT !.pc = "check_arabic", !.results = <<r.result>>,
                                   !.raised = r.raised]
           /\ fx' = IF r.log = "error" THEN {LogError("check_arabic")} ELSE {}
    /\ UNCHANGED <<store, dicts, delete_all_messages_after_removal, reapers, now,
                   member, hw, rm, chk, recorded, armed_at, unremoves, updates_left>>

\* The detectors on their own: one input out of ScanInputs, then one call.
InitScan ==
    /\ groups = Groups
    /\ bypass_users = {}
    /\ warnings = [u \in Users |-> 0]
    /\ warnings_history = <<>>
    /\ tara_links = OneTara
    /\ deletion_settings = [g \in Groups |-> "unset"]
    /\ removed_users = [p \in Groups \X Users |-> 0]
    /\ permissions = InitialPermissions
    /\ pending_group_names = [u \in Users |-> NoGroup]
    /\ pending_user_removals = [u \in Users |-> NoGroup]
    /\ delete_all_messages_after_removal = [g \in Groups |-> NoFlag]
    /\ reapers = {}
    /\ now = 0
    /\ member = [p \in Groups \X Users |-> "member"]
    /\ hw = [h \in Handlers |-> HwIdle]
    /\ rm = RmIdle
    /\ chk = ChkIdle
    /\ fx = {}
    /\ recorded = [u \in Users |-> 0]
    /\ armed_at = [g \in Groups |-> NoFlag]
    /\ unremoves = <<>>
    /\ updates_left = Unbounded
    /\ scan \in {[NoScan EXCEPT !.pc = "input", !.text = t] : t \in ScanInputs}

NextScan ==
    \/ scan_is_arabic
    \/ scan_check_arabic

SpecScan == InitScan /\ [][NextScan]_vars

\* handle_warnings with the messages that carry a document among its
\* updates, for two updates less than MaxUpdates.
InitDocuments ==
    /\ groups \in {Groups} \cup {Groups \ {g} : g \in Groups}
    /\ bypass_users \in {{}} \cup {{u} : u \in Users}
    /\ warnings = [u \in Users |-> 0]
    /\ warnings_history = <<>>
    /\ tara_links = OneTara
    /\ deletion_settings = [g \in Groups |-> "unset"]
    /\ removed_users = [p \in Groups \X Users |-> 0]
    /\ permissions = InitialPermissions
    /\ pending_group_names = [u \in Users |-> NoGroup]
    /\ pending_user_removals = [u \in Users |-> NoGroup]
    /\ delete_all_messages_after_removal = [g \in Groups |-> NoFlag]
    /\ reapers = {}
    /\ now = 0
    /\ member = [p \in Groups \X Users |-> "member"]
    /\ hw = [h \in Handlers |-> HwIdle]
    /\ rm = RmIdle
    /\ chk = ChkIdle
    /\ fx = {}
    /\ recorded = [u \in Users |-> 0]
    /\ armed_at = [g \in Groups |-> NoFlag]
    /\ unremoves = <<>>
    /\ scan = NoScan
    /\ updates_left = MaxUpdates - 2

NextDocuments ==
    \/ \E h \in Handlers : handle_warnings(h)
    \/ \E h \in Handlers : handle_warnings_document(h)
    \/ \E h \in Handlers : hw_reply_unregistered(h)
    \/ \E h \in Handlers : hw_notify(h)
    \/ \E h \in Handlers : hw_report(h)

SpecDocuments == InitDocuments /\ [][NextDocuments]_vars

\* The application as main() assembles it, lines 1903-1940: the command
\* handlers, handle_private_message, delete_arabic_messages and
\* delete_any_messages, with the tasks of the quarantine and the clock,
\* for two updates less than MaxUpdates.  handle_warnings is not among
\* the handlers: main.py does not import warning_handler.
InitApplication == FilterStart /\ updates_left = MaxUpdates - 2

NextApplication ==
    \/ group_add_cmd
    \/ rmove_group_cmd
    \/ bypass_cmd
    \/ unbypass_cmd
    \/ help_cmd
    \/ be_sad_cmd
    \/ be_happy_cmd
    \/ rmove_user_cmd
    \/ rmove_user_banned
    \/ add_removed_user_cmd
    \/ list_rmoved_rmove_cmd
    \/ check_cmd
    \/ check_lookup
    \/ check_report
    \/ check_ban
    \/ handle_private_message
    \/ delete_arabic_messages
    \/ delete_any_messages
    \/ remove_deletion_flag_after_timeout
    \/ Tick

SpecApplication == InitApplication /\ [][NextApplication]_vars

\* handle_warnings in groups with more than one TARA, for two updates
\* less than MaxUpdates.
InitReports ==
    /\ groups = Groups
    /\ bypass_users \in {{}} \cup {{u} : u \in Users}
    /\ warnings = [u \in Users |-> 0]
    /\ warnings_history = <<>>
    /\ tara_links = AllTaras
    /\ deletion_settings = [g \in Groups |-> "unset"]
    /\ removed_users = [p \in Groups \X Users |-> 0]
    /\ permissions = InitialPermissions
    /\ pending_group_names = [u \in Users |-> NoGroup]
    /\ pending_user_removals = [u \in Users |-> NoGroup]
    /\ delete_all_messages_after_removal = [g \in Groups |-> NoFlag]
    /\ reapers = {}
    /\ now = 0
    /\ member = [p \in Groups \X Users |-> "member"]
    /\ hw = [h \in Handlers |-> HwIdle]
    /\ rm = RmIdle
    /\ chk = ChkIdle
    /\ fx = {}
    /\ recorded = [u \in Users |-> 0]
    /\ armed_at = [g \in Groups |-> NoFlag]
    /\ unremoves = <<>>
    /\ scan = NoScan
    /\ updates_left = MaxUpdates - 2

NextReports ==
    \/ \E h \in Handlers : handle_warnings(h)
    \/ \E h \in Handlers : hw_reply_unregistered(h)
    \/ \E h \in Handlers : hw_notify(h)
    \/ \E h \in Handlers : hw_report(h)

SpecReports == InitReports /\ [][NextReports]_vars

\* handle_warnings beside the two commands that write the groups table,
\* /group_add and /rmove_group of main.py (the same warnings.db), for one
\* update less than MaxUpdates.
InitGroupLedger ==
    /\ groups \in {Groups} \cup {Groups \ {g} : g \in Groups}
    /\ bypass_users \in {{}} \cup {{u} : u \in Users}
    /\ warnings = [u \in Users |-> 0]
    /\ warnings_history = <<>>
    /\ tara_links = OneTara
    /\ deletion_settings = [g \in Groups |-> "unset"]
    /\ removed_users = [p \in Groups \X Users |-> 0]
    /\ permissions = InitialPermissions
    /\ pending_group_names = [u \in Users |-> NoGroup]
    /\ pending_user_removals = [u \in Users |-> NoGroup]
    /\ delete_all_messages_after_removal = [g \in Groups |-> NoFlag]
    /\ reapers = {}
    /\ now = 0
    /\ member = [p \in Groups \X Users |-> "member"]
    /\ hw = [h \in Handlers |-> HwIdle]
    /\ rm = RmIdle
    /\ chk = ChkIdle
    /\ fx = {}
    /\ recorded = [u \in Users |-> 0]
    /\ armed_at = [g \in Groups |-> NoFlag]
    /\ unremoves = <<>>
    /\ scan = NoScan
    /\ updates_left = MaxUpdates - 1

NextGroupLedger ==
    \/ \E h \in Handlers : handle_warnings(h)
    \/ \E h \in Handlers : hw_reply_unregistered(h)
    \/ \E h \in Handlers : hw_notify(h)
    \/ \E h \in Handlers : hw_report(h)
    \/ group_add_cmd
    \/ rmove_group_cmd

SpecGroupLedger == InitGroupLedger /\ [][NextGroupLedger]_vars


\* ------------------------------------------------- the warning ledger
HistoryOf(u) == SelectSeq(warnings_history, LAMBDA r : r.user_id = u)

\* C1: while u is in the bypass list, no step changes u's warning count or
\* adds a history row for u.
C1_BypassedNeverRecorded ==
    [][\A u \in Users :
         u \in bypass_users =>
           /\ warnings'[u] = warnings[u]
           /\ SelectSeq(warnings_history', LAMBDA r : r.user_id = u) = HistoryOf(u)]_vars

\* C2: the stored count of a user never decreases and equals the number of
\* warnings handle_warnings has written for the user.
C2_CountEqualsRecordSteps ==
    [][\A u \in Users :
         /\ warnings'[u] >= warnings[u]
         /\ warnings'[u] = recorded'[u]]_vars

\* C3: a violation of u recorded in one group while the handling of another
\* violation of u in a different group is still running adds one to the
\* count the first handling left; so both have taken effect once both runs
\* have finished.
C3_ConcurrentBothCount ==
    [][\A h, o \in Handlers :
         /\ hw[o].pc \in {"notify", "report"}
         /\ hw[h].pc = "idle" /\ hw'[h].pc = "notify"
         /\ hw'[h].user = hw[o].user
         /\ hw'[h].g_id # hw[o].g_id
         => warnings'[hw[o].user] = warnings[hw[o].user] + 1]_vars

\* C4: every user has as many history rows as the stored count says.
C4_HistoryMatchesCount ==
    \A u \in Users : Len(HistoryOf(u)) = warnings[u]

C6_FirstViolation ==
    [][\A u \in Users :
         (u \notin bypass_users /\ warnings[u] = 0 /\ warnings'[u] = 1)
         => /\ \E h \in Handlers : /\ hw[h].pc = "idle"
                                   /\ hw'[h].pc = "notify"
                                   /\ hw'[h].user = u
                                   /\ hw'[h].reason_line = 1
            /\ removed_users' = removed_users
            /\ delete_all_messages_after_removal' = delete_all_messages_after_removal]_vars

\* ------------------------------------------------------ the quarantine
\* The update of a group that the last step handled, if it was one that
\* the dispatcher hands to delete_any_messages.
QuarantineUpdates ==
    {e \in fx : /\ e.kind = "update"
                /\ e.chat \in Groups
                /\ Route(e.what) = "delete_any_messages"}

DeleteAttempted(group_id) ==
    \E d \in fx : d.kind = "delete_message" /\ d.chat = group_id

\* C7: once the flag of g was armed at time t, a message that reaches the
\* quarantine handler of g at time t' gets its delete call exactly when
\* t' < t + 15, whether or not the task that removes the flag has run.
C7_DeletedExactlyWithinTimeframe ==
    \A e \in QuarantineUpdates :
        armed_at[e.chat] # NoFlag
        => (DeleteAttempted(e.chat)
            <=> now < armed_at[e.chat] + MESSAGE_DELETE_TIMEFRAME)

\* C8: a step that clears the flag of g is the waking of a task that was
\* scheduled for the expires_at the flag holds.
C8_StaleReaperLeavesNewerFlag ==
    [][\A g \in Groups :
         (delete_all_messages_after_removal[g] # NoFlag
          /\ delete_all_messages_after_removal'[g] = NoFlag)
         => \E r \in reapers \ reapers' :
                /\ r.group_id = g
                /\ r.wake = delete_all_messages_after_removal[g]]_vars

\* C9: every update of a group whose flag is set and not yet expired gets a
\* delete call, whatever its kind and sender.
C9_EveryMessageDeletedWhileActive ==
    \A e \in fx :
        (/\ e.kind = "update"
         /\ e.chat \in Groups
         /\ delete_all_messages_after_removal[e.chat] # NoFlag
         /\ now < delete_all_messages_after_removal[e.chat])
        => DeleteAttempted(e.chat)

\* ------------------------------------------------------ the reconciler
Range(s) == {s[i] : i \in 1..Len(s)}

\* C10: when the lookups of a /check of g are done, the two lists have no
\* user in common and none twice, together they hold exactly the users
\* with a row for g in the registry, a user is among the users still in
\* the group exactly when the lookup returned member, administrator or
\* creator, and every user whose lookup raised is among the others.
C10_CheckPartitionsRegistry ==
    chk.pc \in {"report", "ban"} =>
        LET stillIn == Range(chk.users_still_in_group)
            notIn == Range(chk.users_not_in_group)
        IN  /\ stillIn \cap notIn = {}
            /\ Cardinality(stillIn) = Len(chk.users_still_in_group)
            /\ Cardinality(notIn) = Len(chk.users_not_in_group)
            /\ stillIn \cup notIn =
                   {u \in Users : removed_users[<<chk.group_id, u>>] > 0}
            /\ \A u \in Users :
                   u \in stillIn <=>
                       \E i \in 1..Len(chk.lookups) :
                           /\ chk.lookups[i].user_id = u
                           /\ chk.lookups[i].ok
                           /\ chk.lookups[i].status \in
                                  {"member", "administrator", "creator"}
            /\ \A i \in 1..Len(chk.lookups) :
                   ~chk.lookups[i].ok => chk.lookups[i].user_id \in notIn

\* C10, reached: the lookups of a /check are done: an administrator is among the users
\* still in the group, and a user whose lookup raised is among the others.
C10_Witness ==
    /\ chk.pc = "report"
    /\ \E i, j \in 1..Len(chk.lookups) :
           /\ chk.lookups[i].ok
           /\ chk.lookups[i].status = "administrator"
           /\ chk.lookups[i].user_id \in Range(chk.users_still_in_group)
           /\ ~chk.lookups[j].ok
           /\ chk.lookups[j].user_id \in Range(chk.users_not_in_group)

\* The step in which a /check run returns.
CheckReturns == chk.pc \in {"report", "ban"} /\ chk'.pc = "idle"

\* The ban calls of the step taken.
BanCalls == {e \in fx' : e.kind = "ban_chat_member"}

\* The users a returning /check run has issued a ban call for, in order.
BansIssued ==
    [i \in 1..Len(chk.bans) |-> chk.bans[i].user_id]
    \o (IF BanCalls = {} THEN <<>> ELSE <<(CHOOSE e \in BanCalls : TRUE).user>>)

\* C11: when a /check of g returns, every ban it issued has succeeded and
\* every user it looked up has the status the lookup met (or kicked, when
\* the run banned the user), then no user with a row for g has a status
\* that a following /check counts as still in the group: that run lists
\* nobody as still in the group and issues no ban.
C11_CheckConverges ==
    [][(/\ CheckReturns
        /\ \A i \in 1..Len(chk.bans) : chk.bans[i].ok
        /\ \A e \in BanCalls : e.ok
        /\ \A i \in 1..Len(chk.lookups) :
               member'[<<chk.group_id, chk.lookups[i].user_id>>] =
                   IF \E j \in 1..Len(BansIssued) :
                          BansIssued[j] = chk.lookups[i].user_id
                   THEN "kicked"
                   ELSE chk.lookups[i].status)
       => \A u \in Users :
              removed_users'[<<chk.group_id, u>>] > 0
              => ~StillInGroup(TRUE, member'[<<chk.group_id, u>>])]_vars

\* C12: a /check run that returns has issued exactly one ban call for each
\* user it listed as still in the group, in the order of the list, and no
\* other ban call.
C12_OneBanPerStillIn ==
    [][CheckReturns => BansIssued = chk.users_still_in_group]_vars

\* C13: a step of a /check run that has listed users as still in the group
\* goes on to the bans after the report, whether or not the report was
\* delivered, and goes on to the next ban after a ban, whether or not it
\* succeeded.
C13_CheckFailureNeverAborts ==
    [][/\ (chk.pc = "report" /\ chk' # chk /\ chk.users_still_in_group # <<>>)
          => chk'.pc = "ban"
       /\ (chk.pc = "ban" /\ chk' # chk /\ Len(chk.todo) > 1)
          => chk'.pc = "ban"]_vars

\* The step in which ban_chat_member of /rmove_user returns.
RemovalBanReturns == rm.pc = "ban" /\ rm'.pc = "idle"

\* The ban call of the step taken has failed.
BanFailed == \E e \in BanCalls : ~e.ok

\* C14: in a removal (/rmove_user g u) a failed platform ban call does not
\* block the next steps: whether or not the ban succeeds, the deletion flag
\* of g is armed for MESSAGE_DELETE_TIMEFRAME seconds and the task that
\* removes it is scheduled.
C14_FailedBanStillArms ==
    [][RemovalBanReturns =>
          /\ delete_all_messages_after_removal'[rm.group_id] =
                 now + MESSAGE_DELETE_TIMEFRAME
          /\ \E r \in reapers' : /\ r.group_id = rm.group_id
                                 /\ r.wake = now + MESSAGE_DELETE_TIMEFRAME]_vars

\* C15: if the platform ban call of /rmove_user g u fails, the local
\* changes already made by the command stay (the registry row (g,u) is
\* there, the permissions are as the command left them) and a message that
\* the platform removal failed is sent to the operator.
C15_FailedBanKeepsLocalChanges ==
    [][(RemovalBanReturns /\ BanFailed) =>
          /\ removed_users'[<<rm.group_id, rm.target_user_id>>] > 0
          /\ permissions' = revoke_user_permissions(rm.target_user_id)
          /\ \E e \in fx' : /\ e.kind = "send_message"
                            /\ e.chat = ALLOWED_USER_ID
                            /\ e.what = "failed_ban"]_vars

\* A removal whose ban has failed has returned, its row in the registry.
C15_Witness ==
    /\ rm.pc = "idle"
    /\ \E e \in fx : /\ e.kind = "ban_chat_member"
                     /\ ~e.ok
                     /\ removed_users[<<e.chat, e.user>>] > 0
                     /\ permissions[e.user] = "removed"
    /\ \E e \in fx : e.kind = "send_message" /\ e.what = "failed_ban"

\* The private notice of the step taken could not be delivered.
NoticeUndelivered ==
    \E e \in fx' : e.kind = "send_message" /\ e.what = "alarm" /\ ~e.ok

\* C16: if the private notice to the violating user cannot be delivered
\* (Forbidden or any other send error), the ledger increment stays in place
\* and the report goes on to every TARA of the group, carrying the outcome
\* of the delivery.
C16_UndeliveredNoticeStillReported ==
    [][\A h \in Handlers :
          (hw[h].pc = "notify" /\ hw'[h] # hw[h] /\ NoticeUndelivered) =>
             /\ warnings' = warnings
             /\ warnings_history' = warnings_history
             /\ tara_links[hw[h].g_id] # {} =>
                   /\ hw'[h].pc = "report"
                   /\ hw'[h].user_notification \in {"forbidden", "error"}
                   /\ hw'[h].taras = SortedSeq(tara_links[hw[h].g_id])]_vars

\* C17: in every reachable state the removal registry holds at most one
\* row per (group_id, user_id), whatever the sequence of /rmove_user,
\* /add_removed_user and unremove.
C17_OneRowPerPair ==
    \A p \in Groups \X Users : removed_users[p] <= 1

\* A pair that was unremoved and added again is removed once more: the
\* second insert of /rmove_user has met the row.
C17_Witness ==
    /\ unremoves # <<>>
    /\ rm.pc = "ban"
    /\ <<rm.group_id, rm.target_user_id>> = unremoves[1]
    /\ removed_users[unremoves[1]] = 1
    /\ \E e \in fx : e.kind = "log_warning" /\ e.what = "add_user_to_removed_users"

\* The step in which /rmove_user group_id user_id passes its checks and
\* runs up to the ban or to the failure that ends it.
RmoveUserOf(group_id, user_id) ==
    /\ rm.pc = "idle"
    /\ \E e \in fx' : e.kind = "update" /\ e.what = "/rmove_user"
    /\ \/ /\ rm'.pc = "ban"
          /\ rm'.group_id = group_id
          /\ rm'.target_user_id = user_id
       \/ \E e \in fx' : /\ e.kind = "log_error"
                         /\ e.chat = group_id
                         /\ e.user = user_id
                         /\ e.what \in {"failed_add_removed", "failed_revoke"}

\* The storage has failed under the insert of the step taken.
InsertStorageError ==
    \E e \in fx' : e.kind = "log_error" /\ e.what = "add_user_to_removed_users"

\* C18: a repeat ban for an already-removed pair is a no-op, not an error:
\* when (g,u) is already in the registry, /rmove_user g u leaves the set of
\* registry rows unchanged and, unless the storage itself fails, reports
\* no failure for the insert and goes on to revoke_user_permissions and
\* from there to the ban.
C18_RepeatBanIsNoOp ==
    [][\A g \in Groups, u \in Users :
          (RmoveUserOf(g, u) /\ removed_users[<<g, u>>] > 0) =>
             /\ removed_users' = removed_users
             /\ ~InsertStorageError =>
                   /\ \A e \in fx' : e.what # "failed_add_removed"
                   /\ \/ rm'.pc = "ban"
                      \/ \E e \in fx' : e.kind = "send_message" /\ e.what = "failed_revoke"]_vars

\* A /rmove_user of a pair that was in the registry waits for its ban.
C18_Witness ==
    /\ rm.pc = "ban"
    /\ removed_users[<<rm.group_id, rm.target_user_id>>] = 1
    /\ \E e \in fx : /\ e.kind = "log_warning"
                     /\ e.chat = rm.group_id
                     /\ e.user = rm.target_user_id
                     /\ e.what = "add_user_to_removed_users"

\* The rows of pairs other than p are the same in both tables.
SameButFor(rows, other, p) ==
    \A q \in Groups \X Users : q # p => other[q] = rows[q]

\* C19: an unremove of (g,u) deletes the row exactly when it is present
\* (and the storage does not fail) and tells the caller whether anything
\* was deleted; a second attempt after a successful one reports not-found
\* and changes nothing; no other registry row is affected.  The same holds
\* of two calls of remove_user_from_removed_users in a row.
C19_UnremoveDeletesWhenPresent ==
    [][\A e \in fx' :
          e.kind = "unremove" =>
             LET p == <<e.chat, e.user>>
                 first == remove_user_from_removed_users(removed_users, p[1], p[2], TRUE)
                 second == remove_user_from_removed_users(first.rows, p[1], p[2], TRUE)
                 failed == remove_user_from_removed_users(removed_users, p[1], p[2], FALSE)
             IN  /\ SameButFor(removed_users, removed_users', p)
                 /\ e.what = "deleted" <=> (removed_users[p] > 0 /\ removed_users'[p] = 0)
                 /\ e.what # "deleted" => removed_users' = removed_users
                 /\ (removed_users[p] > 0 /\ e.what # "failed") => e.what = "deleted"
                 /\ (removed_users[p] = 0 /\ e.what # "failed") => e.what = "not_found"
                 /\ \E m \in fx' :
                       /\ m.kind = "send_message"
                       /\ m.what = CASE e.what = "deleted" -> "unremoved"
                                     [] e.what = "not_found" -> "not_in_list"
                                     [] OTHER -> "failed_unremove"
                 /\ first.result <=> removed_users[p] > 0
                 /\ first.rows[p] = 0
                 /\ SameButFor(removed_users, first.rows, p)
                 /\ ~second.result
                 /\ second.rows = first.rows
                 /\ ~failed.result
                 /\ failed.rows = removed_users]_vars

\* The pair the last unremove deleted is unremoved again and not found.
C19_Witness ==
    /\ unremoves # <<>>
    /\ removed_users[unremoves[1]] = 0
    /\ \E e \in fx : /\ e.kind = "unremove"
                     /\ <<e.chat, e.user>> = unremoves[1]
                     /\ e.what = "not_found"
    /\ \E m \in fx : m.kind = "send_message" /\ m.what = "not_in_list"

\* C20: a registry row (g,u) disappears only through an unremove of (g,u):
\* no step of /check, /rmove_group, /unbypass, /rmove_user,
\* /add_removed_user, /list_rmoved_rmove, of the handlers of the messages
\* of a group or of the task that removes a flag deletes a row, and an
\* unremove deletes no row but its own.
C20_RowsGoOnlyByUnremove ==
    [][\A p \in Groups \X Users :
          (removed_users[p] > 0 /\ removed_users'[p] = 0) =>
             \E e \in fx' : /\ e.kind = "unremove"
                            /\ <<e.chat, e.user>> = p
                            /\ e.what = "deleted"]_vars

\* The group of a row has been unregistered, its flag removed and the
\* operator taken out of the bypass list; the row is still there.
C20_Witness ==
    /\ \E p \in Groups \X Users :
          /\ removed_users[p] > 0
          /\ p[1] \notin groups
          /\ delete_all_messages_after_removal[p[1]] = NoFlag
    /\ reapers = {}
    /\ bypass_users = {}
    /\ \E e \in fx : e.kind = "send_message" /\ e.what = "group_removed"

\* ------------------------------------------------ the operator's commands
\* The answers to an input whose argument count is wrong or whose id does
\* not parse.
MalformedAnswers == {"usage", "not_integer"}

\* What the commands can change: the tables, the dictionaries, the flags.
mutable == <<groups, bypass_users, warnings, warnings_history, removed_users,
             deletion_settings, permissions, pending_group_names,
             pending_user_removals, delete_all_messages_after_removal>>

\* C21: a step that answers a malformed input (wrong argument count or an
\* id that is no integer) changes neither the groups, the bypass list, the
\* registry, the deletion settings, the roles, the pending dictionaries nor
\* the deletion flags, and calls no ban_chat_member.
C21_MalformedRejectedBeforeMutation ==
    [][(\E e \in fx' : e.kind = "send_message" /\ e.what \in MalformedAnswers)
         => /\ UNCHANGED mutable
            /\ \A e \in fx' : e.kind # "ban_chat_member"]_vars

\* C22: nothing that is kept under a group changes while the group is not
\* registered (its deletion setting, its rows of the registry, its flag),
\* and no member of such a group is banned.
C22_UnregisteredGroupMutatesNothing ==
    [][\A g \in Groups \ groups :
         /\ deletion_settings'[g] = deletion_settings[g]
         /\ \A u \in Users : removed_users'[<<g, u>>] = removed_users[<<g, u>>]
         /\ delete_all_messages_after_removal'[g] = delete_all_messages_after_removal[g]
         /\ \A e \in fx' : e.kind = "ban_chat_member" => e.chat # g]_vars

\* The commands main() registers a handler for that writes something.
CommandNames == {"/group_add", "/rmove_group", "/bypass", "/unbypass", "/be_sad",
                 "/be_happy", "/rmove_user", "/add_removed_user",
                 "/list_rmoved_rmove", "/check", "/help"}

\* The commands the last step received from somebody else than the operator.
UnauthorizedCommands ==
    {e \in fx : e.kind = "update" /\ e.what \in CommandNames
                 /\ e.user # ALLOWED_USER_ID}

FilterUpdates ==
    {e \in fx : /\ e.kind = "update"
                /\ e.chat \in Groups
                /\ Route(e.what) = "delete_arabic_messages"}

\* The filter has called message.delete() on the update.
FilterDeleteAttempted(e) ==
    \E d \in fx : /\ d.kind = "delete_message"
                   /\ d.chat = e.chat
                   /\ d.what = "delete_arabic_messages"

\* C24: the filter calls message.delete() on a text update of a group
\* exactly when the deletion setting of the group is on, the sender is not
\* in the bypass list and the text holds an Arabic codepoint.
C24_FilterDeletesExactlyWhenDue ==
    \A e \in FilterUpdates :
        FilterDeleteAttempted(e)
        <=> /\ deletion_settings[e.chat] = "on"
            /\ e.user \notin bypass_users
            /\ e.what = "text_arabic"

\* The calls that put a message into a chat.
SendKinds == {"send_message", "reply_text", "forward_message"}

\* C25: no handler of a message of a group puts a message into that group
\* in reaction to a text with an Arabic codepoint: neither the step of a
\* filter that received such a text, nor a step of a handle_warnings
\* coroutine, whose reply does not depend on the text it handles.
C25_EnforcementSilentInChannel ==
    [][/\ \A u \in fx' :
            (u.kind = "update" /\ u.chat \in Groups /\ u.what = "text_arabic")
            => \A e \in fx' : e.kind \in SendKinds => e.chat # u.chat
       /\ \A h \in Handlers :
            (hw[h].pc # "idle" /\ hw'[h] # hw[h])
            => \A e \in fx' : e.kind \in SendKinds => e.chat # hw[h].g_id]_vars

\* ---------------------------------------------------------- the reports
\* C26: a step that writes an incremented count leaves its coroutine on
\* the way to the notice; the step after the notice goes on to the reports
\* with every TARA linked to the group still to do; every round of the
\* loop calls send_message for the TARA at the head of that list and goes
\* on with the rest.
C26_EveryWarningReported ==
    [][/\ recorded' # recorded
            => \E h \in Handlers : hw[h].pc = "idle" /\ hw'[h].pc = "notify"
       /\ \A h \in Handlers :
            (hw[h].pc = "notify" /\ hw'[h] # hw[h])
            => IF tara_links[hw[h].g_id] = {} THEN hw'[h].pc = "idle"
               ELSE /\ hw'[h].pc = "report"
                    /\ Range(hw'[h].taras) = tara_links[hw[h].g_id]
       /\ \A h \in Handlers :
            (hw[h].pc = "report" /\ hw'[h] # hw[h])
            => /\ \E e \in fx' : /\ e.kind = "send_message"
                                  /\ e.chat = Head(hw[h].taras)
                                  /\ e.what = "alarm_report"
               /\ IF Tail(hw[h].taras) = <<>> THEN hw'[h].pc = "idle"
                  ELSE hw'[h].pc = "report" /\ hw'[h].taras = Tail(hw[h].taras)]_vars

\* ------------------------------------------------------------ the detector
\* The text holds a codepoint of U+0600..U+06FF.
HasArabicCodepoint(text) ==
    \E i \in 1..Len(text) : text[i] \in 1536..1791

\* C27: called with the same str, the range test of utils.py and the
\* regular expressions of main.py, warning_handler.py and delete.py give
\* the same result, which is true exactly when the text holds a codepoint
\* of U+0600..U+06FF; so for the empty string, for U+05FF and U+0700
\* (false) and for U+0600 and U+06FF (true).
C27_DetectorsAgree ==
    scan.pc = "is_arabic"
    => \A k \in 1..4 : scan.results[k] = HasArabicCodepoint(scan.text.chars)

\* The detectors have been called with U+05FF followed by U+06FF.
C27_Witness ==
    /\ scan.pc = "is_arabic"
    /\ scan.text.chars = <<1535, 1791>>
    /\ scan.results = <<TRUE, TRUE, TRUE, TRUE>>

\* C28: a call of check_arabic during which the detector raises returns
\* False, raises nothing to its caller, writes nothing to the ledger or
\* to any other table and deletes no message.
C28_ScanFailsOpen ==
    [][(scan.pc = "input" /\ scan'.pc = "check_arabic" /\ ~scan.text.isStr)
         => /\ scan'.results = <<FALSE>>
            /\ ~scan'.raised
            /\ UNCHANGED mutable
            /\ UNCHANGED recorded
            /\ \A e \in fx' : e.kind # "delete_message"]_vars

\* check_arabic has been called with None and has logged the error.
C28_Witness ==
    /\ scan.pc = "check_arabic"
    /\ scan.text = None
    /\ LogError("check_arabic") \in fx

\* C29: a message of a registered group from a user who is not bypassed,
\* with a document that has Arabic in the text of its pages and none in
\* its caption, raises the count of the user by one and leaves a
\* handle_warnings coroutine on the way to the private notice.
C29_DocumentTextIsScanned ==
    [][\A e \in fx' :
         (/\ e.kind = "update"
          /\ e.what = "document_arabic"
          /\ e.chat \in groups
          /\ e.user \notin bypass_users)
         => /\ warnings'[e.user] = warnings[e.user] + 1
            /\ \E h \in Handlers : hw'[h].pc = "notify" /\ hw'[h].user = e.user]_vars

\* -------------------------------------------------------- the flag, again
\* C30: a group has one flag at most, and from the last arming of the flag
\* of g at time t until t + MESSAGE_DELETE_TIMEFRAME the flag of g holds
\* t + MESSAGE_DELETE_TIMEFRAME, whatever was armed before.
C30_LastArmingWins ==
    \A g \in Groups :
        (armed_at[g] # NoFlag /\ now < armed_at[g] + MESSAGE_DELETE_TIMEFRAME)
        => delete_all_messages_after_removal[g] = armed_at[g] + MESSAGE_DELETE_TIMEFRAME

\* ------------------------------------------------------- termination
\* C31: with the clock running and every task whose sleep is over
\* scheduled, a group whose deletion flag is set is later without a flag,
\* however often and whenever the flag was set again.
C31_EveryFlagDisappears ==
    \A g \in Groups :
        (delete_all_messages_after_removal[g] # NoFlag)
            ~> (delete_all_messages_after_removal[g] = NoFlag)

\* The flag of the first group was set at 0 and again at 5, both tasks
\* have run and the flag is gone.
C31_Witness ==
    /\ armed_at[101] = 5
    /\ now = 20
    /\ reapers = {}
    /\ delete_all_messages_after_removal[101] = NoFlag

\* ------------------------------------------------- answers to the operator
\* The commands of the operator that change a table or a dictionary.
MutatingCommands ==
    {"/group_add", "/rmove_group", "/bypass", "/unbypass", "/be_sad", "/be_happy",
     "/rmove_user", "/add_removed_user"}

\* The update e is a mutating command of the operator, or the private text
\* that answers a pending unremove request.
OperatorIntent(e) ==
    /\ e.kind = "update"
    /\ e.chat = ALLOWED_USER_ID
    /\ e.user = ALLOWED_USER_ID
    /\ \/ e.what \in MutatingCommands
       \/ /\ e.what = "text"
          /\ pending_group_names[ALLOWED_USER_ID] = NoGroup
          /\ pending_user_removals[ALLOWED_USER_ID] # NoGroup

\* The step attempts a message to the operator.
AnswersOperator ==
    \E e \in fx' : e.kind = "send_message" /\ e.chat = ALLOWED_USER_ID

\* C32: the step in which the handler of a mutating command of the
\* operator, or of the reply to an unremove request, ends attempts a
\* message to the operator, whatever the storage and the platform did; a
\* /rmove_user that does not end in its first step waits for
\* ban_chat_member and ends with the message in the step after it.
C32_EveryIntentAnswered ==
    [][/\ (\E e \in fx' : OperatorIntent(e)) => (rm'.pc = "ban" \/ AnswersOperator)
       /\ (rm.pc = "ban" /\ rm'.pc = "idle") => AnswersOperator]_vars

\* enable_deletion has raised under a /be_sad of the operator, and the
\* platform has refused the message that says so.
C32_Witness ==
    /\ Recv(ALLOWED_USER_ID, ALLOWED_USER_ID, "/be_sad") \in fx
    /\ LogError("enable_deletion") \in fx
    /\ Send(ALLOWED_USER_ID, "failed_enable", FALSE) \in fx

\* ------------------------------------------------- bans and the registry
\* C33: every ban_chat_member call, of /rmove_user and of /check, is for
\* a group and a user whose row is in removed_users when the call is
\* made; no unremove takes the row away between the insert of /rmove_user
\* or the SELECT of /check and the call.
C33_BansOnlyRegisteredPairs ==
    [][\A e \in BanCalls : removed_users[<<e.chat, e.user>>] > 0]_vars

\* /check has banned a user of its list after an unremove of the same
\* operator, and the row of the user is in removed_users.
C33_Witness ==
    /\ unremoves # <<>>
    /\ \E g \in Groups, u \in Users :
         /\ fx = {Eff("ban_chat_member", g, u, "", TRUE)}
         /\ removed_users[<<g, u>>] > 0

\* ------------------------------------------------- the assembled application
\* C34: in the application that main() assembles, a text with an Arabic
\* codepoint sent into a registered group by a user who is not bypassed
\* raises the warning count of that user by one.
C34_ArabicTextIsCounted ==
    [][\A e \in fx' :
         (/\ e.kind = "update"
          /\ e.what = "text_arabic"
          /\ e.chat \in groups
          /\ e.user \notin bypass_users)
         => warnings'[e.user] = warnings[e.user] + 1]_vars

\* ------------------------------------------------- the reports to the TARAs
\* A call of the step that was made for the TARA t and raised.
FailedFor(t) ==
    \E e \in fx' : /\ e.kind \in {"send_message", "forward_message"}
                   /\ e.chat = t
                   /\ ~e.ok

\* C35: the loop of handle_warnings starts with every TARA linked to the
\* group; a round of it attempts the report to the first TARA left, and
\* when the report or the forward to that TARA raises, the TARAs after it
\* are still to be attempted (the coroutine ends only when none is left)
\* and the warning count and the history stay as they were written.
C35_ReportsAreIndependent ==
    [][\A h \in Handlers :
         /\ (hw[h].pc = "notify" /\ hw'[h].pc = "report")
            => Range(hw'[h].taras) = tara_links[hw[h].g_id]
         /\ (hw[h].pc = "report" /\ hw'[h] # hw[h])
            => /\ \E e \in fx' : /\ e.kind = "send_message"
                                 /\ e.what = "alarm_report"
                                 /\ e.chat = Head(hw[h].taras)
               /\ FailedFor(Head(hw[h].taras))
                  => /\ hw'[h] = IF Tail(hw[h].taras) = <<>> THEN HwDone
                                 ELSE [hw[h] EXCEPT !.taras = Tail(hw[h].taras)]
                     /\ UNCHANGED <<warnings, warnings_history>>]_vars

\* The report to the first TARA of the group has raised, the warning is
\* in the ledger and the report to the second TARA is the next call.
C35_Witness ==
    \E h \in Handlers :
        /\ hw[h].pc = "report"
        /\ hw[h].taras = <<2>>
        /\ Eff("send_message", 1, hw[h].user, "alarm_report", FALSE) \in fx
        /\ warnings[hw[h].user] = hw[h].warnings_count
        /\ warnings[hw[h].user] > 0

\* ------------------------------------------------- the pending requests
\* The private texts received in the step.
PrivateTexts ==
    {e \in fx' : e.kind = "update" /\ e.what = "text" /\ e.chat = e.user}

\* C36: a private text of a user with a pending unremove request and no
\* pending group name ends the request, whether the text is a user_id or
\* not; with a pending group name the text ends that one and leaves the
\* unremove request as it is; with neither, no table and no dictionary
\* changes; and the pending entries of the other users stay as they are.
C36_PendingConsumedByOneMessage ==
    [][\A e \in PrivateTexts :
         LET u == e.user
         IN  /\ (pending_group_names[u] = NoGroup /\ pending_user_removals[u] # NoGroup)
                => /\ pending_user_removals'[u] = NoGroup
                   /\ pending_group_names'[u] = NoGroup
             /\ pending_group_names[u] # NoGroup
                => /\ pending_group_names'[u] = NoGroup
                   /\ pending_user_removals'[u] = pending_user_removals[u]
             /\ (pending_group_names[u] = NoGroup /\ pending_user_removals[u] = NoGroup)
                => UNCHANGED mutable
             /\ \A v \in Users \ {u} :
                  /\ pending_group_names'[v] = pending_group_names[v]
                  /\ pending_user_removals'[v] = pending_user_removals[v]]_vars

\* After /group_add and /list_rmoved_rmove the private text of the
\* operator was taken as the name of the group, and the unremove request
\* is still pending.
C36_Witness ==
    /\ Recv(ALLOWED_USER_ID, ALLOWED_USER_ID, "text") \in fx
    /\ Send(ALLOWED_USER_ID, "name_set", TRUE) \in fx
    /\ pending_group_names[ALLOWED_USER_ID] = NoGroup
    /\ pending_user_removals[ALLOWED_USER_ID] # NoGroup

\* ------------------------------------------------- unregistered groups
\* C37: a step of handle_warnings for the message of any user, with any
\* text, in a group that is not in the groups table, and the reply that
\* follows it, leave every warning count and the history as they are.
C37_UnregisteredGroupNeverCounts ==
    [][/\ \A h \in Handlers, user \in Users, text \in Texts, g_id \in Groups \ groups :
            handle_warnings_message(h, user, g_id, text)
            => UNCHANGED <<warnings, warnings_history>>
       /\ \A h \in Handlers :
            (hw[h].pc = "reply_unregistered" /\ hw'[h] # hw[h])
            => UNCHANGED <<warnings, warnings_history>>]_vars

\* No group is registered, so one of them was removed by /rmove_group;
\* a message of the first group has been answered with "not registered"
\* and nobody has a warning.
C37_Witness ==
    /\ groups = {}
    /\ \E u \in Users : Eff("reply_text", 101, u, "not_registered", TRUE) \in fx
    /\ \A u \in Users : warnings[u] = 0
    /\ warnings_history = <<>>

\* ------------------------------------------------- the permission role
\* C38: the role of a user becomes "removed" only in a step of
\* /rmove_user after which the user has a row in removed_users; a step
\* that unremoves a user makes no role "removed".
C38_RemovedRoleOnlyByRemoval ==
    [][\A u \in Users :
         (permissions[u] # "removed" /\ permissions'[u] = "removed")
         => /\ \E e \in fx' : e.kind = "update" /\ e.what = "/rmove_user"
            /\ \E g \in Groups : removed_users'[<<g, u>>] > 0
            /\ unremoves' = unremoves]_vars
====
